---- MODULE Spec2Model ----
(***************************************************************************)
(* Chunked ingestion of the bank transaction file into PostgreSQL, as the  *)
(* processor variants of dataenglab/bank-batch-pipeline implement it.      *)
(*                                                                         *)
(*   EPFF  src/src/enhanced_processor_final_fixed.py                       *)
(*   EPF   src/src/enhanced_processor_fixed.py                             *)
(*   CFP   src/src/correct_fixed_processor.py                              *)
(*   SBB   src/src/simple_batch_backup.py                                  *)
(*   FWP   src/src/final_working_processor.py with src/src/database.py     *)
(*                                                                         *)
(* The relational store is an external collaborator: it is modelled by the *)
(* committed table (the sequence of transaction_id keys), the rows pending *)
(* in the open transaction and the psycopg2 connection state.              *)
(***************************************************************************)
EXTENDS Integers, Sequences, FiniteSets, TLC

\* ------------------------------------------------------------------ bounds
\* chunk_size (100000 in the code), scaled down
ChunkSize == 2
\* demo_limit (300000 in the code), scaled down
DemoLimit == 3
\* largest number of records the source file / total_records may hold
MaxRows == 5
\* batch_size of final_working_processor (10000 in the code), scaled down
BatchSize == 1
\* a source file of at most this many records draws its rows from all of
\* Rows, a longer one from CoreRows
ShortFile == 1

\* ------------------------------------------------------- raw field values
\* pandas NaN (an empty CSV cell) in a text column
NaNStr == "NaN"
\* pandas NaN in the gender column, whose values are character sequences
NaNSeq == <<"NaN">>

\* A raw date cell.  k is the shape of the text:
\*   "nan"  empty cell            "s2"  a/b/yy        "s4"  a/b/YYYY
\*   "iso"  YYYY-MM-DD (a = month, b = day)           "d4"  a-b-YYYY
\*   "ys"   YYYY/MM/DD (a = month, b = day)           "junk" no date at all
RawDate(k, a, b, y) == [k |-> k, a |-> a, b |-> b, y |-> y]
NaNDate == RawDate("nan", 0, 0, 0)
JunkDate == RawDate("junk", 0, 0, 0)

\* A parsed date; NoDate stands for Python's None
Date(y, m, d) == [y |-> y, m |-> m, d |-> d]
NoDate == Date(0, 0, 0)

IsLeap(y) == (y % 4 = 0) /\ ((y % 100 # 0) \/ (y % 400 = 0))

DaysIn(y, m) ==
    IF m \in {4, 6, 9, 11} THEN 30
    ELSE IF m = 2 THEN (IF IsLeap(y) THEN 29 ELSE 28)
    ELSE 31

ValidYMD(y, m, d) == m \in 1..12 /\ d >= 1 /\ d <= DaysIn(y, m)

\* strptime's %y: 00..68 are 2000..2068, 69..99 are 1969..1999
Pivot(yy) == IF yy <= 68 THEN 2000 + yy ELSE 1900 + yy

\* pd.to_datetime(text, format=fmt): the whole text must match the format;
\* NoDate when it raises
Strptime(fmt, r) ==
    CASE fmt = "%m/%d/%y" ->
            IF r.k = "s2" /\ ValidYMD(Pivot(r.y), r.a, r.b)
            THEN Date(Pivot(r.y), r.a, r.b) ELSE NoDate
      [] fmt = "%d/%m/%y" ->
            IF r.k = "s2" /\ ValidYMD(Pivot(r.y), r.b, r.a)
            THEN Date(Pivot(r.y), r.b, r.a) ELSE NoDate
      [] fmt = "%m/%d/%Y" ->
            IF r.k = "s4" /\ ValidYMD(r.y, r.a, r.b)
            THEN Date(r.y, r.a, r.b) ELSE NoDate
      [] fmt = "%d/%m/%Y" ->
            IF r.k = "s4" /\ ValidYMD(r.y, r.b, r.a)
            THEN Date(r.y, r.b, r.a) ELSE NoDate
      [] fmt = "%Y-%m-%d" ->
            IF r.k = "iso" /\ ValidYMD(r.y, r.a, r.b)
            THEN Date(r.y, r.a, r.b) ELSE NoDate
      [] fmt = "%m-%d-%Y" ->
            IF r.k = "d4" /\ ValidYMD(r.y, r.a, r.b)
            THEN Date(r.y, r.a, r.b) ELSE NoDate
      [] fmt = "%d-%m-%Y" ->
            IF r.k = "d4" /\ ValidYMD(r.y, r.b, r.a)
            THEN Date(r.y, r.b, r.a) ELSE NoDate
      [] OTHER -> NoDate

\* pd.to_datetime(text) without a format: month first, day first when only
\* that reading is a date, year first for YYYY-MM-DD and YYYY/MM/DD
AutoParse(r) ==
    LET yr == IF r.k = "s2" THEN Pivot(r.y) ELSE r.y IN
    CASE r.k \in {"s2", "s4", "d4"} ->
            IF ValidYMD(yr, r.a, r.b) THEN Date(yr, r.a, r.b)
            ELSE IF ValidYMD(yr, r.b, r.a) THEN Date(yr, r.b, r.a)
            ELSE NoDate
      [] r.k \in {"iso", "ys"} ->
            IF ValidYMD(yr, r.a, r.b) THEN Date(yr, r.a, r.b) ELSE NoDate
      [] OTHER -> NoDate

\* The first format of fmts, in order, whose parse passes the window test
RECURSIVE FirstAccepted(_, _, _, _)
FirstAccepted(fmts, r, lo, hi) ==
    IF fmts = <<>> THEN NoDate
    ELSE LET p == Strptime(Head(fmts), r) IN
         IF p # NoDate /\ lo <= p.y /\ p.y <= hi THEN p
         ELSE FirstAccepted(Tail(fmts), r, lo, hi)

TransactionDateFormats == <<"%m/%d/%y", "%d/%m/%y", "%Y-%m-%d", "%m-%d-%Y">>
CustomerDOBFormats == <<"%d/%m/%y", "%m/%d/%y", "%Y-%m-%d", "%d-%m-%Y">>

\* the year windows of smart_date_conversion
TxnYearLo == 2000
TxnYearHi == 2020
DobYearLo == 1930
DobYearHi == 2010
\* the lower year of convert_customer_dob's window
CfpDobYearLo == 1900

\* enhanced_processor_final_fixed.smart_date_conversion
smart_date_conversion(r, field_name) ==
    IF r.k = "nan" THEN NoDate
    ELSE LET p == IF field_name = "TransactionDate"
                  THEN FirstAccepted(TransactionDateFormats, r, TxnYearLo, TxnYearHi)
                  ELSE FirstAccepted(CustomerDOBFormats, r, DobYearLo, DobYearHi)
         IN IF p # NoDate THEN p ELSE AutoParse(r)

RobustDateFormats == <<"%d/%m/%y", "%d/%m/%Y", "%d-%m-%Y", "%Y-%m-%d", "%m/%d/%Y">>

\* the first format of fmts, in order, that parses (no window)
RECURSIVE FirstParsed(_, _)
FirstParsed(fmts, r) ==
    IF fmts = <<>> THEN NoDate
    ELSE LET p == Strptime(Head(fmts), r) IN
         IF p # NoDate THEN p ELSE FirstParsed(Tail(fmts), r)

\* enhanced_processor_fixed.robust_date_conversion
robust_date_conversion(r) ==
    IF r.k = "nan" THEN NoDate
    ELSE LET p == FirstParsed(RobustDateFormats, r) IN
         IF p # NoDate THEN p ELSE AutoParse(r)

\* correct_fixed_processor.convert_transaction_date
convert_transaction_date(r) ==
    IF r.k = "nan" THEN NoDate
    ELSE FirstAccepted(<<"%m/%d/%y">>, r, TxnYearLo, TxnYearHi)

\* correct_fixed_processor.convert_customer_dob
convert_customer_dob(r) ==
    IF r.k = "nan" THEN NoDate
    ELSE FirstAccepted(<<"%d/%m/%y">>, r, CfpDobYearLo, DobYearHi)

\* the year above which the year fix takes a century off
FixAboveYear == 2020
\* the lower year of parse_customer_dob's window
RdpDobYearLo == 1800

\* if parsed.year > 2020: parsed = parsed.replace(year=parsed.year - 100);
\* NoDate when replace raises (29 February of a year that is no leap year)
FixYear(p) ==
    IF p.y > FixAboveYear
    THEN (IF ValidYMD(p.y - 100, p.m, p.d) THEN Date(p.y - 100, p.m, p.d) ELSE NoDate)
    ELSE p

\* The loop of parse_transaction_date / parse_customer_dob: the first format
\* of fmts whose parse, year-fixed when the format ends in /%y, passes the
\* window test
RECURSIVE FirstFixedAccepted(_, _, _, _)
FirstFixedAccepted(fmts, r, lo, hi) ==
    IF fmts = <<>> THEN NoDate
    ELSE LET p == Strptime(Head(fmts), r)
             q == IF p # NoDate /\ Head(fmts) \in {"%m/%d/%y", "%d/%m/%y"}
                  THEN FixYear(p) ELSE p
         IN IF q # NoDate /\ lo <= q.y /\ q.y <= hi THEN q
            ELSE FirstFixedAccepted(Tail(fmts), r, lo, hi)

\* robust_date_processor.parse_transaction_date
parse_transaction_date(r) ==
    IF r.k = "nan" THEN NoDate
    ELSE FirstFixedAccepted(<<"%m/%d/%y", "%m/%d/%Y", "%d/%m/%y", "%d/%m/%Y">>,
                            r, TxnYearLo, TxnYearHi)

\* robust_date_processor.parse_customer_dob
parse_customer_dob(r) ==
    IF r.k = "nan" THEN NoDate
    ELSE FirstFixedAccepted(<<"%d/%m/%y", "%d/%m/%Y", "%m/%d/%y", "%m/%d/%Y">>,
                            r, RdpDobYearLo, DobYearHi)

\* fix_year_processor.fix_two_digit_year on a text cell: no window test
fix_two_digit_year(r, format_str) ==
    LET p == Strptime(format_str, r) IN
    IF p = NoDate THEN NoDate ELSE FixYear(p)

\* A raw numeric cell: k = "nan" (empty), "num" (a number), "comma" (a number
\* written with thousands separators, read as text) or "junk" (other text)
RawNum(k, v) == [k |-> k, v |-> v]
NaNNum == RawNum("nan", 0)
JunkNum == RawNum("junk", 0)

\* Python's None as the result of a numeric conversion
NoneNum == -1
\* float('nan') as the result of a numeric conversion
NaNFloat == -2

\* robust_numeric_conversion of both enhanced processors
robust_numeric_conversion(r) ==
    CASE r.k = "nan" -> NoneNum
      [] r.k \in {"num", "comma"} -> r.v
      [] OTHER -> NoneNum

\* float(value) of correct_fixed_processor.process_chunk; NoneNum when it raises
float_conversion(r) ==
    CASE r.k = "nan" -> NaNFloat
      [] r.k = "num" -> r.v
      [] OTHER -> NoneNum

\* ------------------------------------------------------------- source rows
Tids == {"T1", "T2"}

\* A well-formed row of the transaction file with TransactionID t
GoodRow(t) ==
    [tid |-> t, cid |-> "C1",
     tdate |-> RawDate("s2", 2, 8, 16), dob |-> RawDate("s2", 26, 11, 96),
     gender |-> <<"M", "a", "l", "e">>, loc |-> "MUMBAI", time |-> "143207",
     bal |-> RawNum("num", 17819), amt |-> RawNum("num", 25)]

\* transaction dates other than the well-formed one: empty, no date, day
\* first, year outside 2000..2020, a shape no candidate format has, and a
\* text with neither a month-first nor a day-first reading
OddTdates ==
    {NaNDate, JunkDate, RawDate("s2", 13, 8, 16), RawDate("s2", 2, 8, 25),
     RawDate("ys", 2, 8, 2016), RawDate("s2", 13, 13, 16)}
OddDobs == {NaNDate, JunkDate, RawDate("s2", 2, 8, 25), RawDate("s2", 11, 10, 94)}
OddNums == {NaNNum, JunkNum, RawNum("comma", 1000)}

\* The rows a chunk of the source file may hold: the well-formed rows, the
\* rows differing from one in a single field, and rows with several defects
Rows ==
    {GoodRow(t) : t \in Tids}
    \cup {[GoodRow("T1") EXCEPT !.tdate = d] : d \in OddTdates}
    \cup {[GoodRow("T1") EXCEPT !.dob = d] : d \in OddDobs}
    \cup {[GoodRow("T1") EXCEPT !.bal = n] : n \in OddNums}
    \cup {[GoodRow("T1") EXCEPT !.amt = n] : n \in OddNums}
    \cup {[GoodRow("T1") EXCEPT !.gender = g] : g \in {NaNSeq, <<"F">>}}
    \cup {[GoodRow("T1") EXCEPT !.loc = NaNStr],
          [GoodRow("T1") EXCEPT !.time = NaNStr],
          [GoodRow("T1") EXCEPT !.cid = NaNStr],
          [GoodRow(NaNStr) EXCEPT !.cid = "C1"],
          [GoodRow(NaNStr) EXCEPT !.tdate = JunkDate],
          [GoodRow(NaNStr) EXCEPT !.bal = JunkNum],
          [GoodRow("T1") EXCEPT !.cid = NaNStr, !.amt = NaNNum],
          [GoodRow("T1") EXCEPT !.tdate = NaNDate, !.bal = JunkNum],
          [GoodRow("T2") EXCEPT !.dob = NaNDate, !.gender = NaNSeq,
                                !.loc = NaNStr, !.time = NaNStr]}

\* The rows of a long source file: one row for each way through the loop
\* body, and two keys
CoreRows ==
    {GoodRow(t) : t \in Tids}
    \cup {[GoodRow("T1") EXCEPT !.tdate = NaNDate],
          [GoodRow("T1") EXCEPT !.tdate = RawDate("ys", 2, 8, 2016)],
          [GoodRow("T1") EXCEPT !.bal = JunkNum],
          [GoodRow(NaNStr) EXCEPT !.cid = "C1"]}

\* the two-digit year tokens
YearTokens == 0..99

\* The rows a short file of robust_date_processor / fix_year_processor may
\* hold: every year token in either date, four-digit years, a day-first
\* transaction date, 29 February, and a balance that is no number
YearRows ==
    {GoodRow(t) : t \in Tids}
    \cup {[GoodRow("T1") EXCEPT !.tdate = RawDate("s2", 2, 8, yy)] : yy \in YearTokens}
    \cup {[GoodRow("T1") EXCEPT !.dob = RawDate("s2", 26, 11, yy)] : yy \in YearTokens}
    \cup {[GoodRow("T1") EXCEPT !.tdate = RawDate("s4", 2, 8, 2016)],
          [GoodRow("T1") EXCEPT !.tdate = RawDate("s4", 2, 8, 2025)],
          [GoodRow("T1") EXCEPT !.tdate = RawDate("s2", 13, 8, 16)],
          [GoodRow("T1") EXCEPT !.tdate = RawDate("s2", 2, 29, 16)],
          [GoodRow("T1") EXCEPT !.tdate = JunkDate],
          [GoodRow("T1") EXCEPT !.dob = RawDate("s4", 26, 11, 1996)],
          [GoodRow("T1") EXCEPT !.dob = RawDate("s2", 29, 2, 24)],
          [GoodRow("T1") EXCEPT !.dob = JunkDate],
          [GoodRow("T1") EXCEPT !.bal = JunkNum]}

\* the rows of a long file of these two processors
YearCoreRows ==
    {GoodRow(t) : t \in Tids}
    \cup {[GoodRow("T1") EXCEPT !.tdate = RawDate("s2", 2, 8, 25)],
          [GoodRow("T1") EXCEPT !.bal = JunkNum]}

\* the value of the loop variable before the first row is read
NoRow == [GoodRow(NaNStr) EXCEPT !.cid = NaNStr, !.tdate = NaNDate, !.dob = NaNDate,
                                 !.gender = NaNSeq, !.loc = NaNStr, !.time = NaNStr,
                                 !.bal = NaNNum, !.amt = NaNNum]

\* ----------------------------------------------------------- row handling
\* Python's None as a text value
NoneStr == "None"
\* datetime(1900, 1, 1).date(), the default for a missing CustomerDOB
SentinelDob == Date(1900, 1, 1)

\* str(x) if pd.notna(x) else default
StrOr(x, default) == IF x # NaNStr THEN x ELSE default

\* str(x)[:1] if pd.notna(x) else 'U'
GenderCode(g) == IF g # NaNSeq THEN SubSeq(g, 1, 1) ELSE <<"U">>

\* robust_date_processor ("RDP") and fix_year_processor ("FYP") share their
\* loop
YearProgs == {"RDP", "FYP"}

\* the transaction date as the variant converts it
TxnDateOf(p, row) ==
    CASE p = "EPFF" -> smart_date_conversion(row.tdate, "TransactionDate")
      [] p = "EPF" -> robust_date_conversion(row.tdate)
      [] p = "RDP" -> parse_transaction_date(row.tdate)
      [] p = "FYP" -> fix_two_digit_year(row.tdate, "%m/%d/%y")
      [] OTHER -> convert_transaction_date(row.tdate)

\* the birth date as the variant converts it (None is kept here)
DobOf(p, row) ==
    CASE p = "EPFF" -> smart_date_conversion(row.dob, "CustomerDOB")
      [] p = "EPF" -> robust_date_conversion(row.dob)
      [] p = "RDP" -> parse_customer_dob(row.dob)
      [] p = "FYP" -> fix_two_digit_year(row.dob, "%d/%m/%y")
      [] OTHER -> convert_customer_dob(row.dob)

\* balance and amount as the variant converts them
NumOf(p, r) ==
    IF p \in {"CFP"} \cup YearProgs THEN float_conversion(r)
    ELSE robust_numeric_conversion(r)

\* customer_dob as it is passed to the INSERT
DobKept(p, d) == d
DobDefault(p, d) == IF p \in {"EPFF", "CFP"} /\ d = NoDate THEN SentinelDob ELSE d

\* str(x): the text of a NaN cell is 'nan'
Str(x) == IF x = NaNStr THEN "nan" ELSE x

\* transaction_id / customer_id as passed to the INSERT: the enhanced
\* processors turn NaN into None, the other row loops apply str()
IdOf(p, x) == IF p \in {"CFP"} \cup YearProgs THEN Str(x) ELSE StrOr(x, NoneStr)

\* the parameter tuple of the INSERT statement
InsertParams(p, row) ==
    [transaction_id |-> IdOf(p, row.tid),
     customer_id |-> IdOf(p, row.cid),
     customer_dob |-> DobDefault(p, DobOf(p, row)),
     cust_gender |-> GenderCode(row.gender),
     cust_location |-> StrOr(row.loc, "Unknown"),
     cust_account_balance |-> NumOf(p, row.bal),
     transaction_date |-> TxnDateOf(p, row),
     transaction_time |-> StrOr(row.time, "000000"),
     transaction_amount |-> NumOf(p, row.amt)]

\* the parameter tuple of robust_date_processor and fix_year_processor:
\* str() and float() of the cells without a test for NaN, the birth date as
\* it was parsed
YearInsertParams(p, row) ==
    [InsertParams(p, row) EXCEPT
        !.cust_gender = IF row.gender = NaNSeq THEN <<"n">> ELSE SubSeq(row.gender, 1, 1),
        !.cust_location = Str(row.loc),
        !.transaction_time = Str(row.time)]

\* no INSERT was issued for the row
NoParams == InsertParams("EPF", NoRow)

\* The checks of the row loop body in the order the code makes them; the
\* result is the counter the row goes to, "insert" when the INSERT is reached
ClassifyIdsFirst(p, row) ==
    IF p # "CFP" /\ (IdOf(p, row.tid) = NoneStr \/ IdOf(p, row.cid) = NoneStr)
         THEN "other"
    ELSE IF TxnDateOf(p, row) = NoDate THEN "date"
    ELSE IF NumOf(p, row.bal) = NoneNum \/ NumOf(p, row.amt) = NoneNum THEN "numeric"
    ELSE "insert"
Classify(p, row) ==
    IF TxnDateOf(p, row) = NoDate THEN "date"
    ELSE IF NumOf(p, row.bal) = NoneNum \/ NumOf(p, row.amt) = NoneNum THEN "numeric"
    ELSE IF p # "CFP" /\ (IdOf(p, row.tid) = NoneStr \/ IdOf(p, row.cid) = NoneStr)
         THEN "other"
    ELSE "insert"

\* ------------------------------------------------ the sink (psycopg2, PostgreSQL)
\* What the server does with one request: it succeeds, the statement fails
\* (the connection stays up), or the connection is lost
SinkEvents == {"ok", "error", "lost"}

Range(q) == {q[n] : n \in 1..Len(q)}

\* the rows INSERT ... ON CONFLICT (transaction_id) DO NOTHING leaves pending
\* in the open transaction, given the committed table
InsertIgnoreAlways(table, pend, key) == Append(pend, key)
InsertOnConflictDoNothing(table, pend, key) ==
    IF key \in Range(table) \cup Range(pend) THEN pend ELSE Append(pend, key)

\* cursor.execute(INSERT ... ON CONFLICT DO NOTHING) on a connection in state
\* c: a closed connection and a failed transaction refuse the statement
ExecuteInsert(c, table, pend, key, ev) ==
    CASE c = "closed" -> [raised |-> TRUE, conn |-> c, pending |-> pend]
      [] c = "inerror" -> [raised |-> TRUE, conn |-> c, pending |-> pend]
      [] ev = "ok" -> [raised |-> FALSE, conn |-> "intrans",
                       pending |-> InsertOnConflictDoNothing(table, pend, key)]
      [] ev = "error" -> [raised |-> TRUE, conn |-> "inerror", pending |-> pend]
      [] OTHER -> [raised |-> TRUE, conn |-> "closed", pending |-> <<>>]

\* connection.commit(): COMMIT of a failed transaction is answered with a
\* rollback and raises nothing; a lost connection raises
Commit(c, table, pend, ev) ==
    CASE c = "closed" -> [raised |-> TRUE, conn |-> c, pending |-> <<>>, sink |-> table]
      [] c = "ready" -> [raised |-> FALSE, conn |-> c, pending |-> <<>>, sink |-> table]
      [] c = "inerror" ->
            [raised |-> FALSE, conn |-> "ready", pending |-> <<>>, sink |-> table]
      [] ev = "lost" ->
            [raised |-> TRUE, conn |-> "closed", pending |-> <<>>, sink |-> table]
      [] OTHER ->
            [raised |-> FALSE, conn |-> "ready", pending |-> <<>>, sink |-> table \o pend]

\* connection.rollback(): raises on a closed connection
RollbackNothing(c) == [raised |-> FALSE, conn |-> c]
Rollback(c) ==
    IF c = "closed" THEN [raised |-> TRUE, conn |-> c]
    ELSE [raised |-> FALSE, conn |-> "ready"]

\* ------------------------------------------------------------------- state
VARIABLES
    prog,             \* the processor variant that runs
    pc,               \* where the run stands
    rowsPulled,       \* records pulled from the source so far
    eof,              \* the source has no further record
    fileCap,          \* the most records the source file may hold
    chunkLen,         \* len(chunk) of the chunk last pulled
    idx,              \* rows of the chunk the row loop has handled
    chunk_number,
    total_processed,
    total_stored,
    success_count,    \* the stored count returned for the last chunk or batch
    chunk_stored,     \* final_working_processor: stored in the current chunk
    records_stored,
    date_errors,
    numeric_errors,
    other_errors,
    conn,             \* "ready", "intrans", "inerror" or "closed"
    pending,          \* keys inserted in the open transaction
    sink,             \* keys of the committed rows of table transactions
    row,              \* the row the loop body last handled
    params,           \* the parameters of the INSERT issued for it
    sinkAtStart,      \* history: the committed table when the chunk began
    issued,           \* history: keys of the chunk's INSERTs that did not raise
    sinkCalls,        \* history: the store's answers to the calls made for the last batch
    sinkAtChunk,      \* history: the committed table when final_working_processor's chunk began
    rawBackup,        \* what became of the raw backup of the current chunk
    current_batch,    \* PipelineMonitor: the batch being monitored
    metrics_history,  \* PipelineMonitor: records_processed of the ended batches
    performance_stats, \* PipelineMonitor: total_batches, total_records_processed
    error_count,      \* ErrorHandler.error_count
    error_types,      \* ErrorHandler.error_types: calls of handle_error by type
    retry_attempts,   \* ErrorHandler.retry_attempts: failed retries by type
    error_type,       \* the error_type of the last call of handle_error
    operation,        \* the last call of handle_error was given an operation
    attempt,          \* retry_operation: the loop variable
    wait_times,       \* history: the sleeps of the last call, in order
    op_calls,         \* history: calls of the operation made by the last call
    op_result,        \* history: what the operation returned, "none" if nothing
    handled,          \* what the last call of handle_error returned or raised
    retryAtCall,      \* history: retry_attempts when the last call began
    transactions,     \* run_validated_pipeline: the list it was given
    handed,           \* history: the lists handed to the processing step
    pipeline_result,  \* what run_validated_pipeline returned
    validation_errors, \* DataValidator.validation_errors: the records appended
    batch_result,     \* what DataValidator.validate_batch returned
    report,           \* the summary of DataValidator.get_validation_report
    connect_attempt,  \* _connect_with_retry: the connection attempts that failed
    connect_sleeps,   \* history: the sleeps _connect_with_retry has made
    db,               \* ValidatedBatchProcessor.db of validated_processor_database
    written,          \* history: the lists passed to a write method of db
    batch_id,         \* current_batch.batch_id (NoId without a batch)
    history_ids,      \* the batch_id of each element of metrics_history
    chunk_source,     \* the lengths of the chunks a file yields
    ceiling,          \* the record-count ceiling (demo limit) of a run over it
    variant_runs,     \* what the two loop variants did with that file
    scheduler_stats,  \* BatchScheduler.scheduler_stats: the three job counters
    job_history,      \* BatchScheduler.job_history: the job records kept
    pid_file,         \* logs/scheduler.pid: the PID written in it, NoPid without the file
    procs,            \* the operating system's process table over the PIDs
    ctl               \* each SchedulerController process: where its command stands

vars == <<prog, pc, rowsPulled, eof, fileCap, chunkLen, idx, chunk_number, total_processed,
          total_stored, success_count, chunk_stored, records_stored,
          date_errors, numeric_errors, other_errors, conn, pending, sink, row, params,
          sinkAtStart, issued, sinkCalls, sinkAtChunk, rawBackup, current_batch,
          metrics_history, performance_stats, error_count, error_types, retry_attempts,
          error_type, operation, attempt, wait_times, op_calls, op_result, handled, retryAtCall,
          transactions, handed, pipeline_result, validation_errors, batch_result,
          report, connect_attempt, connect_sleeps, db, written,
          batch_id, history_ids, chunk_source, ceiling, variant_runs,
          scheduler_stats, job_history, pid_file, procs, ctl>>

\* the state of the ErrorHandler and of its last call
handlerVars == <<error_count, error_types, retry_attempts, error_type, operation, attempt,
                 wait_times, op_calls, op_result, handled, retryAtCall>>

\* the variables of the components that stand beside the processors
\* a call of ValidatedBatchProcessor.run_validated_pipeline
validatedVars == <<transactions, handed, pipeline_result>>

\* a DataValidator and what its methods returned
validatorVars == <<validation_errors, batch_result, report>>

\* the loop of DatabaseClient._connect_with_retry
connectVars == <<connect_attempt, connect_sleeps>>

\* the ValidatedBatchProcessor of validated_processor_database
productionVars == <<db, written>>

\* what the handler and the validators leave alone besides the processors
\* the run of the two chunk-loop variants over one file
ceilingVars == <<chunk_source, ceiling, variant_runs>>

\* a BatchScheduler
schedulerVars == <<scheduler_stats, job_history>>

\* the SchedulerController processes, the PID file and the process table
controllerVars == <<pid_file, procs, ctl>>

\* the components that stand beside the processors and the validators
extraVars == <<ceilingVars, schedulerVars, controllerVars>>

laterVars == <<connectVars, productionVars, extraVars>>

\* the identities of the monitor's batches
batchIdVars == <<batch_id, history_ids>>

\* what the processors without monitoring leave alone
clientVars == <<handlerVars, validatedVars, validatorVars, laterVars, batchIdVars>>

RowProgs == {"EPFF", "EPF", "CFP"}
\* final_working_processor, final_working_processor_fixed and
\* final_working_processor_backup share their loop
FwpProgs == {"FWP", "FWPF", "FWPB"}
\* "MON" is a client of monitoring.PipelineMonitor making any calls
\* "EH" is a client of error_handler.ErrorHandler making any calls, "VPF" a
\* caller of validated_processor_final's run_validated_pipeline, "DV" a
\* client of data_validator.DataValidator
Progs == RowProgs \cup {"SBB", "MON", "EH", "VPF", "DV", "VPD", "CEIL", "SCH", "CTL"} \cup FwpProgs \cup YearProgs

\* validate_batch / get_validation_report have not returned
NoBatchResult == [valid_count |-> 0, invalid_count |-> 0, total_processed |-> 0]
\* a rate is the fraction num / den
NoReport ==
    [total_checked |-> 0, errors_count |-> 0, error_rate |-> [num |-> 0, den |-> 1],
     success_rate |-> [num |-> 0, den |-> 1]]

\* no call of run_validated_pipeline has returned
NoResult ==
    [success |-> FALSE, processed_count |-> 0, original_count |-> 0, valid_count |-> 0,
     rejected_count |-> 0, error |-> "not returned"]

\* PipelineMonitor.current_batch when no batch is monitored (None)
NoBatch ==
    [active |-> FALSE, records_processed |-> 0, records_successful |-> 0,
     records_failed |-> 0, validation_errors |-> 0, database_errors |-> 0,
     data_quality_score |-> [num |-> 0, den |-> 1]]

\* a batch_id: 'full_pipeline_execution', f"chunk_{n:02d}", or a client's own
BatchId(name, n) == [name |-> name, n |-> n]
NoId == BatchId("None", 0)

\* the SchedulerController processes that issue commands, and the PIDs the
\* operating system hands out (and hands out again once they are free)
Controllers == {"c1", "c2"}
Pids == {1, 2}
NoPid == 0

\* a controller between two commands
Idle == [pc |-> "idle", pid |-> NoPid, then_start |-> FALSE]

\* most chunks of a file given to the two loop variants
MaxChunks == 3

\* the files: up to MaxChunks chunks of 1..ChunkSize rows; the ceilings
ChunkSources == UNION {[1..n -> 1..ChunkSize] : n \in 0..MaxChunks}
Ceilings == 1..(DemoLimit + 1)

\* what a chunk loop did: the chunks it stored, in order, and total_processed
Run(ingested, total) == [ingested |-> ingested, total_processed |-> total]
NoRuns == [before |-> Run(<<>>, 0), after |-> Run(<<>>, 0)]

\* the committed table a run may find: empty, or rows of an earlier run
InitialSinks == {<<>>, <<"T1">>}

Init ==
    /\ prog \in Progs
    /\ pc = CASE prog \in {"EPFF", "EPF", "FWP", "FWPF", "FWPB"} -> "start"
              [] prog = "MON" -> "monitor"
              [] prog = "EH" -> "handler"
              [] prog = "VPF" -> "pipeline"
              [] prog = "DV" -> "validator"
              [] prog = "VPD" -> "production"
              [] prog = "CEIL" -> "variants"
              [] prog = "SCH" -> "scheduler"
              [] prog = "CTL" -> "control"
              [] OTHER -> "loop"
    /\ rowsPulled = 0
    /\ eof \in (IF prog \in {"FWP", "FWPF", "FWPB", "MON", "EH", "VPF", "DV", "VPD", "CEIL", "SCH", "CTL"} THEN {FALSE} ELSE BOOLEAN)
    /\ fileCap \in {ShortFile, MaxRows}
    /\ chunkLen = 0
    /\ idx = 0
    /\ chunk_number = 0
    /\ total_processed = 0
    /\ total_stored = 0
    /\ success_count = 0
    /\ chunk_stored = 0
    /\ records_stored = 0
    /\ date_errors = 0
    /\ numeric_errors = 0
    /\ other_errors = 0
    /\ conn = "ready"
    /\ pending = <<>>
    /\ sink \in InitialSinks
    /\ row = NoRow
    /\ params = NoParams
    /\ sinkAtStart = sink
    /\ issued = {}
    /\ sinkCalls = <<>>
    /\ sinkAtChunk = sink
    /\ rawBackup = "none"
    /\ current_batch = NoBatch
    /\ batch_id = NoId
    /\ history_ids = <<>>
    /\ metrics_history = <<>>
    /\ performance_stats = [total_batches |-> 0, total_records_processed |-> 0]
    /\ error_count = 0
    /\ error_types = <<>>
    /\ retry_attempts = <<>>
    /\ error_type = "none"
    /\ operation = FALSE
    /\ attempt = 0
    /\ wait_times = <<>>
    /\ op_calls = 0
    /\ op_result = "none"
    /\ handled = "none"
    /\ retryAtCall = <<>>
    /\ transactions = <<>>
    /\ handed = <<>>
    /\ pipeline_result = NoResult
    /\ validation_errors = <<>>
    /\ batch_result = NoBatchResult
    /\ report = NoReport
    /\ connect_attempt = 0
    /\ connect_sleeps = 0
    /\ db \in (IF prog = "VPD" THEN {"DatabaseClient", "None"} ELSE {"None"})
    /\ written = <<>>
    /\ chunk_source \in (IF prog = "CEIL" THEN ChunkSources ELSE {<<>>})
    /\ ceiling \in (IF prog = "CEIL" THEN Ceilings ELSE {1})
    /\ variant_runs = NoRuns
    /\ scheduler_stats = [jobs_executed |-> 0, jobs_succeeded |-> 0, jobs_failed |-> 0]
    /\ job_history = <<>>
    /\ pid_file = NoPid
    /\ procs = [p \in Pids |-> "free"]
    /\ ctl = [c \in Controllers |-> Idle]

\* ------------------------------------------------- the row-loop processors
Min(a, b) == IF a <= b THEN a ELSE b

\* the ceiling test at the top of the chunk loop body
LimitNever(p, processed, stored) == FALSE
LimitReached(p, processed, stored) ==
    IF p \in {"FWP", "FWPF", "FWPB"} \cup YearProgs THEN stored >= DemoLimit
    ELSE processed >= DemoLimit

\* the four counters of the row loop after a row with the given outcome:
\* "date", "numeric", "other" (missing id), "raised" (the except clause of
\* the loop body) or "stored"
TallyLosing(c, outcome) ==
    CASE outcome = "date" -> [c EXCEPT !.date_errors = @ + 1]
      [] outcome = "numeric" -> [c EXCEPT !.numeric_errors = @ + 1]
      [] outcome = "other" -> [c EXCEPT !.other_errors = @ + 1]
      [] outcome = "raised" -> c
      [] OTHER -> [c EXCEPT !.records_stored = @ + 1]
Tally(c, outcome) ==
    CASE outcome = "date" -> [c EXCEPT !.date_errors = @ + 1]
      [] outcome = "numeric" -> [c EXCEPT !.numeric_errors = @ + 1]
      [] outcome \in {"other", "raised"} -> [c EXCEPT !.other_errors = @ + 1]
      [] OTHER -> [c EXCEPT !.records_stored = @ + 1]

Counters ==
    [records_stored |-> records_stored, date_errors |-> date_errors,
     numeric_errors |-> numeric_errors, other_errors |-> other_errors]

SetCounters(c) ==
    /\ records_stored' = c.records_stored
    /\ date_errors' = c.date_errors
    /\ numeric_errors' = c.numeric_errors
    /\ other_errors' = c.other_errors

\* pd.read_csv(file_path, chunksize=chunk_size) yields the next chunk: n
\* records, fewer than chunk_size only in the last chunk of the file
PullChunk(n, last) ==
    /\ rowsPulled + n <= fileCap
    /\ n < ChunkSize => last
    /\ chunkLen' = n
    /\ rowsPulled' = rowsPulled + n
    /\ eof' = last

\* test_connections of the enhanced processors: the run starts only when the
\* store answers
TestConnections(ev) ==
    /\ pc = "start"
    /\ prog \in {"EPFF", "EPF"}
    /\ conn' = CASE ev = "ok" -> "intrans" [] ev = "error" -> "inerror" [] OTHER -> "closed"
    /\ pc' = IF ev = "ok" THEN "loop" ELSE "aborted"
    /\ UNCHANGED <<clientVars, current_batch, metrics_history, performance_stats, prog, rawBackup, sinkAtChunk, sinkCalls, chunk_stored, rowsPulled, eof, fileCap, chunkLen, idx, chunk_number, total_processed,
                   total_stored, success_count, records_stored, date_errors,
                   numeric_errors, other_errors, pending, sink, row, params,
                   sinkAtStart, issued>>

\* the object store when the raw chunk is put: switched off, up, or failing
RawEvents == {"off", "ok", "failed"}

\* store_raw_data_minio / _store_raw_data_in_minio: the put is skipped, made,
\* or its exception is caught and printed
store_raw_data_minio(raw) ==
    CASE raw = "off" -> "skipped"
      [] raw = "ok" -> "stored"
      [] OTHER -> "error"

\* the caller goes on to store the chunk whatever the backup returned
ProceedsIfBackedUp(result) == result # "error"
ProceedsAfterBackup(result) == result \in {"skipped", "stored", "error"}

\* The chunk loop pulls the next chunk and enters the chunk's storing
\* function, which zeroes its counters and opens a cursor.
StartChunk(raw) ==
    /\ pc = "loop"
    /\ prog \in RowProgs
    /\ ~eof
    /\ ~LimitReached(prog, total_processed, total_stored)
    /\ \E n \in 1..ChunkSize, last \in BOOLEAN : PullChunk(n, last)
    /\ chunk_number' = chunk_number + 1
    /\ SetCounters([records_stored |-> 0, date_errors |-> 0,
                    numeric_errors |-> 0, other_errors |-> 0])
    /\ idx' = 0
    /\ row' = NoRow
    /\ params' = NoParams
    /\ sinkAtStart' = sink
    /\ issued' = {}
    /\ prog = "CFP" => raw = "off"
    /\ rawBackup' = IF prog = "CFP" THEN "none" ELSE store_raw_data_minio(raw)
    /\ IF conn = "closed" \/ (prog # "CFP" /\ ~ProceedsAfterBackup(rawBackup'))
       THEN \* pg_conn.cursor() raises
            IF prog = "CFP"
            THEN /\ pc' = "crashed"
                 /\ UNCHANGED <<total_processed, total_stored, success_count>>
            ELSE /\ pc' = "loop"
                 /\ success_count' = 0
                 /\ total_processed' = total_processed + chunkLen'
                 /\ UNCHANGED total_stored
       ELSE /\ pc' = "rows"
            /\ UNCHANGED <<total_processed, total_stored, success_count>>
    /\ UNCHANGED <<clientVars, current_batch, metrics_history, performance_stats, prog, sinkAtChunk, sinkCalls, chunk_stored, fileCap, conn, pending, sink>>

\* One pass of the row loop body over row r; ev is the store's answer to
\* the INSERT when one is issued.
ProcessRow(r, ev) ==
    /\ pc = "rows"
    /\ idx < chunkLen
    /\ LET cat == Classify(prog, r)
           key == InsertParams(prog, r).transaction_id
           res == ExecuteInsert(conn, sink, pending, key, ev)
       IN IF cat # "insert"
          THEN /\ ev = "ok"
               /\ SetCounters(Tally(Counters, cat))
               /\ params' = NoParams
               /\ UNCHANGED <<conn, pending, issued>>
          ELSE /\ SetCounters(Tally(Counters, IF res.raised THEN "raised" ELSE "stored"))
               /\ params' = InsertParams(prog, r)
               /\ conn' = res.conn
               /\ pending' = res.pending
               /\ issued' = IF res.raised THEN issued ELSE issued \cup {key}
    /\ row' = r
    /\ idx' = idx + 1
    /\ UNCHANGED <<clientVars, current_batch, metrics_history, performance_stats, prog, rawBackup, sinkAtChunk, sinkCalls, chunk_stored, pc, rowsPulled, eof, fileCap, chunkLen, chunk_number, total_processed,
                   total_stored, success_count, sink, sinkAtStart>>

\* After the last row: commit (the enhanced processors roll back when
\* nothing was stored), return the stored count, and the chunk loop adds up.
FinishChunk(ev) ==
    /\ pc = "rows"
    /\ idx = chunkLen
    /\ LET commits == prog = "CFP" \/ records_stored > 0
           com == Commit(conn, sink, pending, ev)
           rb == Rollback(conn)
           raised == IF commits THEN com.raised ELSE rb.raised
           returned == IF raised THEN 0 ELSE records_stored
       IN /\ (~commits \/ conn # "intrans") => ev = "ok"
          /\ ev # "error"
          /\ conn' = IF commits THEN com.conn ELSE rb.conn
          /\ sink' = IF commits THEN com.sink ELSE sink
          /\ pending' = <<>>
          /\ IF raised /\ prog = "CFP"
             THEN /\ pc' = "crashed"
                  /\ UNCHANGED <<total_processed, total_stored, success_count>>
             ELSE /\ pc' = "loop"
                  /\ success_count' = returned
                  /\ total_processed' = total_processed + chunkLen
                  /\ total_stored' = IF prog = "EPF" THEN total_stored
                                     ELSE total_stored + returned
    /\ SetCounters([records_stored |-> 0, date_errors |-> 0,
                    numeric_errors |-> 0, other_errors |-> 0])
    /\ idx' = 0
    /\ rawBackup' = "none"
    /\ row' = NoRow
    /\ params' = NoParams
    /\ UNCHANGED <<clientVars, current_batch, metrics_history, performance_stats, prog, sinkAtChunk, sinkCalls, chunk_stored, rowsPulled, eof, fileCap, chunkLen, chunk_number, sinkAtStart, issued>>

\* What follows the chunk loop.  enhanced_processor_final_fixed calls
\* create_aggregations when total_stored > 0, whose except clause rolls back:
\* on a closed connection the rollback raises and the pipeline returns False
\* ("aborted").  correct_fixed_processor divides by total_processed in its
\* last print ("crashed" when it is 0).  Otherwise the run completes ("done").
AfterLoop(p, c, processed, stored, ev) ==
    CASE p = "CFP" -> IF processed = 0 THEN "crashed" ELSE "done"
      [] p = "EPFF" /\ stored > 0 ->
            IF c = "closed" \/ (c # "inerror" /\ ev = "lost") THEN "aborted" ELSE "done"
      [] OTHER -> "done"

\* the store is asked something after the loop
AsksAfterLoop(p, c, stored) == p = "EPFF" /\ stored > 0 /\ c \notin {"closed", "inerror"}

\* The chunk loop pulls a chunk, finds the ceiling reached and breaks.
LimitBreak(ev) ==
    /\ pc = "loop"
    /\ prog \in RowProgs
    /\ ~eof
    /\ LimitReached(prog, total_processed, total_stored)
    /\ \E n \in 1..ChunkSize, last \in BOOLEAN : PullChunk(n, last)
    /\ ~AsksAfterLoop(prog, conn, total_stored) => ev = "ok"
    /\ chunk_number' = chunk_number + 1
    /\ pc' = AfterLoop(prog, conn, total_processed, total_stored, ev)
    /\ conn' = "closed"
    /\ UNCHANGED <<clientVars, current_batch, metrics_history, performance_stats, prog, rawBackup, sinkAtChunk, sinkCalls, chunk_stored, fileCap, idx, total_processed, total_stored,
                   success_count, records_stored, date_errors, numeric_errors,
                   other_errors, pending, sink, row, params, sinkAtStart, issued>>

\* The source has no further chunk: the loop ends and the run reports.
SourceExhausted(ev) ==
    /\ pc = "loop"
    /\ prog \in RowProgs
    /\ eof
    /\ ~AsksAfterLoop(prog, conn, total_stored) => ev = "ok"
    /\ pc' = AfterLoop(prog, conn, total_processed, total_stored, ev)
    /\ conn' = IF pc' = "crashed" THEN conn ELSE "closed"
    /\ UNCHANGED <<clientVars, current_batch, metrics_history, performance_stats, prog, rawBackup, sinkAtChunk, sinkCalls, chunk_stored, rowsPulled, eof, fileCap, chunkLen, idx, chunk_number, total_processed,
                   total_stored, success_count, records_stored, date_errors,
                   numeric_errors, other_errors, pending, sink, row, params,
                   sinkAtStart, issued>>

\* ------------------------------------------------ monitoring.PipelineMonitor
\* most batches kept in metrics_history, most records one batch records
MaxBatches == 3
MaxRecorded == 2

\* PipelineMonitor's state
monitorVars == <<current_batch, metrics_history, performance_stats, batchIdVars>>

\* the state of the processors and of the store, but for prog and pc
storeVars ==
    <<rowsPulled, eof, fileCap, chunkLen, idx, chunk_number, total_processed,
      total_stored, success_count, chunk_stored, records_stored, date_errors,
      numeric_errors, other_errors, conn, pending, sink, row, params, sinkAtStart,
      issued, sinkCalls, sinkAtChunk, rawBackup>>

\* the other variables of the module, which the monitor leaves alone
nonMonitorVars ==
    <<prog, pc, rowsPulled, eof, fileCap, chunkLen, idx, chunk_number, total_processed,
      total_stored, success_count, chunk_stored, records_stored, date_errors,
      numeric_errors, other_errors, conn, pending, sink, row, params, sinkAtStart,
      issued, sinkCalls, sinkAtChunk, rawBackup, handlerVars, validatedVars, validatorVars,
      laterVars>>

\* start_monitoring -> monitor.start_batch: a fresh BatchMetrics replaces
\* current_batch, whatever it was
start_monitoring(id) ==
    /\ current_batch' = [NoBatch EXCEPT !.active = TRUE]
    /\ batch_id' = id
    /\ UNCHANGED <<metrics_history, performance_stats, history_ids>>

\* record_processing_results -> monitor.record_processing: adds to the
\* current batch, if any
record_processing_results(records_attempted, records_successful, validation_errors_, database_errors) ==
    /\ current_batch' =
          IF current_batch.active
          THEN LET b == [current_batch EXCEPT
                            !.records_processed = @ + records_attempted,
                            !.records_successful = @ + records_successful,
                            !.records_failed = @ + (records_attempted - records_successful),
                            !.validation_errors = @ + validation_errors_,
                            !.database_errors = @ + database_errors]
                   total_errors == b.records_failed + b.validation_errors + b.database_errors
               IN IF b.records_processed > 0
                  THEN [b EXCEPT !.data_quality_score =
                                    [num |-> (b.records_processed - total_errors) * 100,
                                     den |-> b.records_processed]]
                  ELSE b
          ELSE current_batch
    /\ UNCHANGED <<metrics_history, performance_stats, batchIdVars>>

\* BatchMetrics.error_rate, a percentage as the fraction num / den
error_rate(b) ==
    IF b.records_processed = 0 THEN [num |-> 0, den |-> 1]
    ELSE [num |-> (b.records_failed + b.validation_errors + b.database_errors) * 100,
          den |-> b.records_processed]

\* PipelineMonitor.start_batch, called by a client of the monitor that
\* numbers its batches by the batches the monitor has counted
start_batch ==
    /\ prog = "MON"
    /\ start_monitoring(BatchId("batch", performance_stats.total_batches + 1))
    /\ UNCHANGED nonMonitorVars

\* PipelineMonitor.record_processing, called by a client that leaves the
\* error arguments at their defaults
record_processing(records_attempted, records_successful) ==
    /\ prog = "MON"
    /\ current_batch.records_processed + records_attempted <= MaxRecorded
    /\ record_processing_results(records_attempted, records_successful, 0, 0)
    /\ UNCHANGED nonMonitorVars

\* PipelineMonitor._update_performance_stats
update_performance_stats_batches_only(stats, batch) ==
    [stats EXCEPT !.total_batches = @ + 1]
update_performance_stats(stats, batch) ==
    [stats EXCEPT !.total_batches = @ + 1,
                  !.total_records_processed = @ + batch.records_processed]

\* what may happen inside the try block of end_batch
EndOutcomes == {"no", "early", "late"}

\* end_monitoring -> monitor.end_batch.  raised: an exception inside its try block,
\* "early" before the batch is appended or "late" after the totals were
\* updated; it is caught, and current_batch is cleared in every case.
end_monitoring(raised) ==
    /\ ~current_batch.active => raised = "no"
    /\ IF current_batch.active /\ raised # "early"
       THEN /\ metrics_history' = Append(metrics_history, current_batch.records_processed)
            /\ history_ids' = Append(history_ids, batch_id)
            /\ performance_stats' = update_performance_stats(performance_stats, current_batch)
       ELSE UNCHANGED <<metrics_history, history_ids, performance_stats>>
    /\ current_batch' = NoBatch
    /\ batch_id' = NoId

\* PipelineMonitor.end_batch, called by a client of the monitor
end_batch(raised) ==
    /\ prog = "MON"
    /\ Len(metrics_history) < MaxBatches
    /\ end_monitoring(raised)
    /\ UNCHANGED nonMonitorVars

\* no call of the monitor in this step
NoMonitoring == UNCHANGED monitorVars

\* ------------------------------------- final_working_processor, database.py
\* the transaction ids DataGenerator.generate_batch may produce
GeneratedKeys == {"T1", "T2", "T3", "T4"}

\* the batches chunk_data[i:i + batch_size] may be, n records long
BatchesOf(n) == [1..n -> GeneratedKeys]

\* some key of the batch is in the table already or twice in the batch
HasDuplicate(table, batch) ==
    \/ \E n \in 1..Len(batch) : batch[n] \in Range(table)
    \/ \E m, n \in 1..Len(batch) : m # n /\ batch[m] = batch[n]

\* DatabaseClient.insert_transaction_batch on a connection in state c: the
\* plain INSERT of the whole batch and the commit, or the rollback of the
\* except clauses.  raised: the rollback itself raised (closed connection);
\* answer: what the store did with the one INSERT the call sends.
insert_transaction_batch(c, table, batch, ev) ==
    IF batch = <<>>
    THEN [raised |-> FALSE, returned |-> 0, conn |-> c, sink |-> table, answer |-> "ok"]
    ELSE IF c = "closed" \/ ev = "lost"
    THEN [raised |-> TRUE, returned |-> 0, conn |-> "closed", sink |-> table,
          answer |-> "lost"]
    ELSE IF c = "inerror" \/ ev = "error"
    THEN [raised |-> FALSE, returned |-> 0, conn |-> Rollback("inerror").conn,
          sink |-> table, answer |-> "error"]
    ELSE IF HasDuplicate(table, batch)
    THEN [raised |-> FALSE, returned |-> 0, conn |-> Rollback("inerror").conn,
          sink |-> table, answer |-> "duplicate"]
    ELSE [raised |-> FALSE, returned |-> Len(batch),
          conn |-> Commit("intrans", table, batch, "ok").conn,
          sink |-> Commit("intrans", table, batch, "ok").sink, answer |-> "ok"]

\* DatabaseClient.get_transaction_count: a SELECT that opens a transaction;
\* its failure is swallowed and leaves the connection as the failure left it
get_transaction_count(c, ev) ==
    CASE c = "closed" -> c
      [] c = "inerror" -> c
      [] ev = "ok" -> "intrans"
      [] ev = "error" -> "inerror"
      [] OTHER -> "closed"

\* max_retries of DatabaseClient._connect_with_retry (30 in the code), scaled down
ConnectMaxRetries == 4

\* what psycopg2.connect may do: connect, raise OperationalError, or raise
\* an error the except clause does not name
ConnectOutcomes == {"ok", "OperationalError", "other"}

\* the except clause sleeps when attempt < max_retries - 1
SleepsAlways(n) == TRUE
SleepsBetween(n) == n < ConnectMaxRetries - 1

\* One pass of the loop of DatabaseClient._connect_with_retry (called by
\* __init__): the attempt, and either the return (the loop's variables end
\* with the call), the sleep, or the raise that leaves the processor unbuilt
ConnectWithRetry(outcome) ==
    /\ prog \in FwpProgs
    /\ pc = "start"
    /\ connect_attempt < ConnectMaxRetries
    /\ CASE outcome = "ok" ->
              /\ pc' = "loop"
              /\ conn' = "ready"
              /\ connect_attempt' = 0
              /\ connect_sleeps' = 0
         [] outcome = "OperationalError" ->
              /\ connect_attempt' = connect_attempt + 1
              /\ connect_sleeps' = IF SleepsBetween(connect_attempt)
                                   THEN connect_sleeps + 1 ELSE connect_sleeps
              /\ pc' = IF connect_attempt' < ConnectMaxRetries THEN "start" ELSE "aborted"
              /\ conn' = IF pc' = "aborted" THEN "closed" ELSE conn
         [] OTHER ->
              /\ connect_attempt' = connect_attempt + 1
              /\ pc' = "aborted"
              /\ conn' = "closed"
              /\ UNCHANGED connect_sleeps
    /\ UNCHANGED <<handlerVars, validatedVars, validatorVars, productionVars, extraVars, batchIdVars, current_batch, metrics_history, performance_stats, prog, rawBackup, sinkAtChunk, sinkCalls, rowsPulled, eof, fileCap, chunkLen, idx,
                   chunk_number, total_processed, total_stored, success_count,
                   chunk_stored, records_stored, date_errors, numeric_errors,
                   other_errors, pending, sink, row, params, sinkAtStart, issued>>

\* final_working_processor_fixed imports the monitoring module; the other
\* two processors of the family have no monitoring
HAS_MONITORING(p) == p = "FWPF"

\* id of the batch process_large_dataset opens for the whole run
FullPipelineExecution == BatchId("full_pipeline_execution", 0)

\* process_large_dataset has passed its first lines
Entered == HAS_MONITORING(prog) => (chunk_number > 0 \/ batch_id = FullPipelineExecution)

\* The first lines of process_large_dataset with monitoring: the run's batch
\* is opened before the chunk loop.
FwpEnter ==
    /\ prog \in FwpProgs
    /\ HAS_MONITORING(prog)
    /\ pc = "loop"
    /\ ~Entered
    /\ start_monitoring(FullPipelineExecution)
    /\ UNCHANGED <<prog, pc, storeVars, handlerVars, validatedVars, validatorVars, laterVars>>

\* Top of the chunk loop body below the ceiling: start_monitoring for the
\* chunk, generate_batch(chunk_size).
FwpStartChunk ==
    /\ prog \in FwpProgs
    /\ pc = "loop"
    /\ Entered
    /\ rowsPulled < fileCap
    /\ ~LimitReached(prog, total_processed, total_stored)
    /\ chunk_number' = chunk_number + 1
    /\ chunkLen' = ChunkSize
    /\ chunk_stored' = 0
    /\ idx' = 0
    /\ pc' = "batches"
    /\ rawBackup' = "none"
    /\ sinkAtChunk' = sink
    /\ IF HAS_MONITORING(prog)
       THEN start_monitoring(BatchId("chunk", chunk_number'))
       ELSE NoMonitoring
    /\ UNCHANGED <<handlerVars, validatedVars, validatorVars, laterVars, prog, sinkCalls, rowsPulled, eof, fileCap, total_processed, total_stored,
                   success_count, records_stored, date_errors, numeric_errors,
                   other_errors, conn, pending, sink, row, params, sinkAtStart,
                   issued>>

\* final_working_processor_fixed reads the table's count after every
\* CountEvery-th batch of a chunk (5 in the code, scaled down)
CountEvery == 2

\* the batch at offset i of the chunk is followed by get_transaction_count
CountsNow(p, i) == p # "FWPF" \/ ((i \div BatchSize) + 1) % CountEvery = 0

\* One pass of the batch loop body: insert the batch, add its stored count,
\* read the table's count.  A rollback that raises ends process_large_dataset.
FwpInsertBatch(batch, ev, evc) ==
    /\ prog \in FwpProgs
    /\ pc = "batches"
    /\ idx < chunkLen
    /\ Len(batch) = Min(BatchSize, chunkLen - idx)
    /\ LET res == insert_transaction_batch(conn, sink, batch, ev)
       IN /\ sinkAtStart' = sink
          /\ issued' = Range(batch)
          /\ sinkCalls' = <<res.answer>>
          /\ sink' = res.sink
          /\ IF res.raised
             THEN /\ evc = "ok"
                  /\ pc' = "crashed"
                  /\ conn' = res.conn
                  /\ UNCHANGED <<success_count, chunk_stored, idx>>
                  /\ NoMonitoring
             ELSE /\ pc' = "batches"
                  /\ success_count' = res.returned
                  /\ chunk_stored' = chunk_stored + res.returned
                  /\ ~CountsNow(prog, idx) => evc = "ok"
                  /\ conn' = IF CountsNow(prog, idx)
                             THEN get_transaction_count(res.conn, evc) ELSE res.conn
                  /\ idx' = idx + BatchSize
                  /\ IF HAS_MONITORING(prog)
                     THEN record_processing_results(Len(batch), res.returned, 0,
                                                    Len(batch) - res.returned)
                     ELSE NoMonitoring
    /\ UNCHANGED <<handlerVars, validatedVars, validatorVars, laterVars, prog, rawBackup, sinkAtChunk, rowsPulled, eof, fileCap, chunkLen, chunk_number,
                   total_processed, total_stored, records_stored, date_errors,
                   numeric_errors, other_errors, pending, row, params>>

\* final_working_processor_backup puts the raw chunk after every
\* BackupEvery-th chunk (3 in the code, scaled down)
BackupEvery == 2

BacksUpNow(p, n) == p = "FWPB" /\ n % BackupEvery = 0

\* After the last batch the chunk's monitoring ends and the chunk's stored
\* count is added to the run's;
\* final_working_processor_backup then backs the raw chunk up.
FwpFinishChunk(raw, raised) ==
    /\ prog \in FwpProgs
    /\ pc = "batches"
    /\ idx >= chunkLen
    /\ IF HAS_MONITORING(prog)
       THEN end_monitoring(raised)
       ELSE raised = "no" /\ NoMonitoring
    /\ total_stored' = total_stored + chunk_stored
    /\ rowsPulled' = rowsPulled + ChunkSize
    /\ ~BacksUpNow(prog, chunk_number) => raw = "off"
    /\ rawBackup' = IF BacksUpNow(prog, chunk_number) THEN store_raw_data_minio(raw)
                    ELSE "none"
    /\ pc' = IF ProceedsAfterBackup(rawBackup') \/ rawBackup' = "none" THEN "loop" ELSE "crashed"
    /\ UNCHANGED <<handlerVars, validatedVars, validatorVars, laterVars, prog, sinkAtChunk, sinkCalls, eof, fileCap, chunkLen, idx, chunk_number, total_processed,
                   success_count, chunk_stored, records_stored, date_errors,
                   numeric_errors, other_errors, conn, pending, sink, row, params,
                   sinkAtStart, issued>>

\* The ceiling is reached at the top of the loop body, or the range is
\* exhausted: end_monitoring is called for the run, the final count is read
\* and total_stored returned.
FwpEnd(raised) ==
    /\ prog \in FwpProgs
    /\ pc = "loop"
    /\ Entered
    /\ IF HAS_MONITORING(prog)
       THEN end_monitoring(raised)
       ELSE raised = "no" /\ NoMonitoring
    /\ rowsPulled >= fileCap \/ LimitReached(prog, total_processed, total_stored)
    /\ chunk_number' = IF rowsPulled < fileCap THEN chunk_number + 1 ELSE chunk_number
    /\ pc' = "done"
    /\ conn' = "closed"
    /\ UNCHANGED <<handlerVars, validatedVars, validatorVars, laterVars, prog, rawBackup, sinkAtChunk, sinkCalls, rowsPulled, eof, fileCap, chunkLen, idx, total_processed,
                   total_stored, success_count, chunk_stored, records_stored,
                   date_errors, numeric_errors, other_errors, pending, sink, row,
                   params, sinkAtStart, issued>>

\* KeyboardInterrupt reaches final_working_processor_fixed between two calls
\* of the store: no except clause of the loop catches it, main reports the
\* interruption and closes the connection.
Interrupt ==
    /\ prog = "FWPF"
    /\ pc \in {"loop", "batches"}
    /\ pc' = "interrupted"
    /\ conn' = "closed"
    /\ UNCHANGED <<clientVars, current_batch, metrics_history, performance_stats, prog, rawBackup, sinkAtChunk, sinkCalls, rowsPulled, eof, fileCap, chunkLen, idx,
                   chunk_number, total_processed, total_stored, success_count,
                   chunk_stored, records_stored, date_errors, numeric_errors,
                   other_errors, pending, sink, row, params, sinkAtStart, issued>>

\* KeyboardInterrupt arrives inside insert_transaction_batch, whose except
\* clauses do not catch it: before the commit is through (the close of the
\* connection discards the batch) or after it (the batch is in the table, the
\* counts are not updated).
InterruptInsert(batch, committed) ==
    /\ prog = "FWPF"
    /\ pc = "batches"
    /\ idx < chunkLen
    /\ Len(batch) = Min(BatchSize, chunkLen - idx)
    /\ committed => insert_transaction_batch(conn, sink, batch, "ok").answer = "ok"
    /\ sink' = IF committed THEN insert_transaction_batch(conn, sink, batch, "ok").sink
               ELSE sink
    /\ sinkAtStart' = sink
    /\ issued' = Range(batch)
    /\ pc' = "interrupted"
    /\ conn' = "closed"
    /\ UNCHANGED <<clientVars, current_batch, metrics_history, performance_stats, prog, rawBackup, sinkAtChunk, sinkCalls, rowsPulled, eof, fileCap, chunkLen, idx,
                   chunk_number, total_processed, total_stored, success_count,
                   chunk_stored, records_stored, date_errors, numeric_errors,
                   other_errors, pending, row, params>>

\* ------------------------------------------------------ simple_batch_backup
\* the rows of the chunks simple_batch_backup is given: well-formed rows and
\* a row whose TransactionDate is not of the form %d/%m/%y
SbbRows ==
    {GoodRow(t) : t \in Tids}
    \cup {[GoodRow("T1") EXCEPT !.tdate = RawDate("ys", 2, 8, 2016)]}

\* pd.to_datetime(df['TransactionDate'], format='%d/%m/%y') raises: some
\* cell with text in it does not match the format
ColumnConversionRaises(rows) ==
    \E n \in 1..Len(rows) :
        rows[n].tdate.k # "nan" /\ Strptime("%d/%m/%y", rows[n].tdate) = NoDate

\* the keys pending after the INSERT ... ON CONFLICT DO NOTHING of each row
RECURSIVE InsertAll(_, _, _)
InsertAll(table, pend, rows) ==
    IF rows = <<>> THEN pend
    ELSE InsertAll(table, InsertOnConflictDoNothing(table, pend, Head(rows).tid),
                   Tail(rows))

\* store_processed_data on a connection in state c: the column conversion,
\* the INSERT of every row and the commit, or the rollback of the except
\* clause.  raised: the rollback itself raised (closed connection).
store_processed_data(c, table, rows, ev) ==
    IF c = "closed" \/ (~ColumnConversionRaises(rows) /\ c # "inerror" /\ ev = "lost")
    THEN [raised |-> TRUE, returned |-> FALSE, conn |-> "closed", sink |-> table]
    ELSE IF ColumnConversionRaises(rows) \/ c = "inerror" \/ ev = "error"
    THEN [raised |-> FALSE, returned |-> FALSE, conn |-> Rollback(c).conn, sink |-> table]
    ELSE [raised |-> FALSE, returned |-> TRUE,
          conn |-> Commit("intrans", table, InsertAll(table, <<>>, rows), "ok").conn,
          sink |-> Commit("intrans", table, InsertAll(table, <<>>, rows), "ok").sink]

\* the ceiling test at the bottom of process_full_pipeline's loop body
SbbLimitReached(processed) == processed >= DemoLimit

\* One pass of process_full_pipeline's loop body: store the chunk, add its
\* length, test the ceiling.  A rollback that raises ends the pipeline with
\* "Pipeline error" (return False).
SbbChunk(rows, last, ev) ==
    /\ prog = "SBB"
    /\ pc = "loop"
    /\ ~eof
    /\ PullChunk(Len(rows), last)
    /\ chunk_number' = chunk_number + 1
    /\ LET res == store_processed_data(conn, sink, rows, ev)
       IN /\ sinkAtStart' = sink
          /\ issued' = {rows[n].tid : n \in {m \in 1..Len(rows) :
                            Strptime("%d/%m/%y", rows[m].tdate) # NoDate}}
          /\ conn' = res.conn
          /\ sink' = res.sink
          /\ IF res.raised
             THEN /\ pc' = "aborted"
                  /\ UNCHANGED total_processed
             ELSE /\ total_processed' = total_processed + Len(rows)
                  /\ pc' = IF SbbLimitReached(total_processed') THEN "after_loop"
                           ELSE "loop"
    /\ UNCHANGED <<clientVars, current_batch, metrics_history, performance_stats, prog, rawBackup, sinkAtChunk, sinkCalls, fileCap, idx, total_stored, success_count, chunk_stored,
                   records_stored, date_errors, numeric_errors, other_errors,
                   pending, row, params>>

\* The source has no further chunk.
SbbExhausted ==
    /\ prog = "SBB"
    /\ pc = "loop"
    /\ eof
    /\ pc' = "after_loop"
    /\ UNCHANGED <<clientVars, current_batch, metrics_history, performance_stats, prog, rawBackup, sinkAtChunk, sinkCalls, rowsPulled, eof, fileCap, chunkLen, idx, chunk_number,
                   total_processed, total_stored, success_count, chunk_stored,
                   records_stored, date_errors, numeric_errors, other_errors, conn,
                   pending, sink, row, params, sinkAtStart, issued>>

\* After the loop: create_aggregations (its failure is reported, unless its
\* rollback raises), the summary, return True, and the connection is closed.
SbbAfterLoop(ev) ==
    /\ prog = "SBB"
    /\ pc = "after_loop"
    /\ conn = "closed" => ev = "ok"
    /\ pc' = IF conn = "closed" \/ ev = "lost" THEN "aborted" ELSE "done"
    /\ conn' = "closed"
    /\ UNCHANGED <<clientVars, current_batch, metrics_history, performance_stats, prog, rawBackup, sinkAtChunk, sinkCalls, rowsPulled, eof, fileCap, chunkLen, idx, chunk_number,
                   total_processed, total_stored, success_count, chunk_stored,
                   records_stored, date_errors, numeric_errors, other_errors,
                   pending, sink, row, params, sinkAtStart, issued>>

\* ------------------------- robust_date_processor, fix_year_processor (main)
\* The chunk loop pulls the next chunk, finds the test limit not reached and
\* zeroes stored_in_chunk.
YearStartChunk ==
    /\ pc = "loop"
    /\ prog \in YearProgs
    /\ ~eof
    /\ ~LimitReached(prog, total_processed, total_stored)
    /\ \E n \in 1..ChunkSize, last \in BOOLEAN : PullChunk(n, last)
    /\ chunk_number' = chunk_number + 1
    /\ chunk_stored' = 0
    /\ idx' = 0
    /\ row' = NoRow
    /\ params' = NoParams
    /\ sinkAtStart' = sink
    /\ issued' = {}
    /\ pc' = "year_rows"
    /\ UNCHANGED <<clientVars, current_batch, metrics_history, performance_stats, prog, rawBackup,
                   sinkAtChunk, sinkCalls, fileCap, total_processed, total_stored,
                   success_count, records_stored, date_errors, numeric_errors,
                   other_errors, conn, pending, sink>>

\* One pass of the row loop body: both dates are parsed, a row without a
\* transaction date is skipped, float() of balance and amount, the INSERT,
\* stored_in_chunk += 1; whatever raises is swallowed by except: continue.
YearRow(r, ev) ==
    /\ pc = "year_rows"
    /\ idx < chunkLen
    /\ LET key == YearInsertParams(prog, r).transaction_id
           res == ExecuteInsert(conn, sink, pending, key, ev)
       IN IF \/ TxnDateOf(prog, r) = NoDate
             \/ NumOf(prog, r.bal) = NoneNum
             \/ NumOf(prog, r.amt) = NoneNum
          THEN /\ ev = "ok"
               /\ params' = NoParams
               /\ UNCHANGED <<conn, pending, issued, chunk_stored>>
          ELSE /\ params' = YearInsertParams(prog, r)
               /\ conn' = res.conn
               /\ pending' = res.pending
               /\ issued' = IF res.raised THEN issued ELSE issued \cup {key}
               /\ chunk_stored' = IF res.raised THEN chunk_stored ELSE chunk_stored + 1
    /\ row' = r
    /\ idx' = idx + 1
    /\ UNCHANGED <<clientVars, current_batch, metrics_history, performance_stats, prog, rawBackup,
                   sinkAtChunk, sinkCalls, pc, rowsPulled, eof, fileCap, chunkLen,
                   chunk_number, total_processed, total_stored, success_count,
                   records_stored, date_errors, numeric_errors, other_errors, sink,
                   sinkAtStart>>

\* After the last row: conn.commit() and total_stored += stored_in_chunk; a
\* commit that raises is caught nowhere and ends the process.
YearFinishChunk(ev) ==
    /\ pc = "year_rows"
    /\ idx = chunkLen
    /\ conn # "intrans" => ev = "ok"
    /\ ev # "error"
    /\ LET com == Commit(conn, sink, pending, ev)
       IN /\ conn' = com.conn
          /\ sink' = com.sink
          /\ pending' = <<>>
          /\ pc' = IF com.raised THEN "crashed" ELSE "loop"
          /\ total_stored' = IF com.raised THEN total_stored
                             ELSE total_stored + chunk_stored
    /\ idx' = 0
    /\ row' = NoRow
    /\ params' = NoParams
    /\ UNCHANGED <<clientVars, current_batch, metrics_history, performance_stats, prog, rawBackup,
                   sinkAtChunk, sinkCalls, chunk_stored, rowsPulled, eof, fileCap,
                   chunkLen, chunk_number, total_processed, success_count,
                   records_stored, date_errors, numeric_errors, other_errors,
                   sinkAtStart, issued>>

\* The chunk loop ends, by the test limit (after pulling one more chunk) or
\* with the source; cursor and connection are closed.
YearEnd ==
    /\ pc = "loop"
    /\ prog \in YearProgs
    /\ IF eof
       THEN UNCHANGED <<rowsPulled, eof, chunkLen, chunk_number>>
       ELSE /\ LimitReached(prog, total_processed, total_stored)
            /\ \E n \in 1..ChunkSize, last \in BOOLEAN : PullChunk(n, last)
            /\ chunk_number' = chunk_number + 1
    /\ pc' = "done"
    /\ conn' = "closed"
    /\ UNCHANGED <<clientVars, current_batch, metrics_history, performance_stats, prog, rawBackup,
                   sinkAtChunk, sinkCalls, chunk_stored, fileCap, idx, total_processed,
                   total_stored, success_count, records_stored, date_errors,
                   numeric_errors, other_errors, pending, sink, row, params,
                   sinkAtStart, issued>>

\* ------------------------------------------------ error_handler.ErrorHandler
\* most calls of handle_error in a run
MaxErrors == 2
\* max_retries of ErrorHandler.retry_operation
MaxRetries == 3

TransientErrors ==
    {"network_error", "timeout_error", "database_connection", "processing_error"}
DataErrors == {"data_validation_error", "business_rule_violation"}
CriticalErrors == {"file_not_found", "configuration_error"}
\* the error types a caller may pass: the named ones and one the code does
\* not name
ErrorTypes == TransientErrors \cup DataErrors \cup CriticalErrors \cup {"unknown_error"}

\* what the operation may do when it is called: raise, or return a value
OperationOutcomes == {"raise", "v1", "v2"}

\* d.get(k, 0) and d[k] = v of a dict of counts
Get(d, k) == IF k \in DOMAIN d THEN d[k] ELSE 0
Put(d, k, v) == [x \in DOMAIN d \cup {k} |-> IF x = k THEN v ELSE d[x]]

\* the branch of handle_error an error type takes
StrategyRetryAll(et) == "retry"
Strategy(et) ==
    CASE et \in TransientErrors -> "retry"
      [] et \in DataErrors -> "continue"
      [] et \in CriticalErrors -> "critical"
      [] OTHER -> "default"

\* wait_time = 2 ** attempt
wait_time_linear(n) == n + 1
wait_time(n) == 2 ^ n

\* what retry_operation returns when the operation returned result
RetryResultTrue(result) == "True"
RetryResult(result) == result

\* ErrorHandler.handle_error up to its return, its raise, or its entry into
\* the loop of retry_operation
handle_error(et, has_operation) ==
    /\ prog = "EH"
    /\ pc = "handler"
    /\ error_count < MaxErrors
    /\ error_count' = error_count + 1
    /\ error_types' = Put(error_types, et, Get(error_types, et) + 1)
    /\ error_type' = et
    /\ operation' = has_operation
    /\ attempt' = 0
    /\ wait_times' = <<>>
    /\ op_calls' = 0
    /\ op_result' = "none"
    /\ retryAtCall' = retry_attempts
    /\ CASE Strategy(et) = "retry" ->
              IF has_operation
              THEN pc' = "retry" /\ handled' = "pending"
              ELSE pc' = "handler" /\ handled' = "True"
         [] Strategy(et) = "continue" -> pc' = "handler" /\ handled' = "None"
         [] Strategy(et) = "critical" -> pc' = "handler" /\ handled' = "RuntimeError"
         [] OTHER -> pc' = "handler" /\ handled' = "True"
    /\ UNCHANGED <<retry_attempts, prog, storeVars, monitorVars, validatedVars,
                   validatorVars, laterVars>>

\* One pass of the loop of retry_operation: the sleep, the call, and either
\* the return of the result or the except clause; after the last pass that
\* failed the function returns None.
retry_operation(outcome) ==
    /\ prog = "EH"
    /\ pc = "retry"
    /\ attempt < MaxRetries
    /\ wait_times' = Append(wait_times, wait_time(attempt))
    /\ op_calls' = op_calls + 1
    /\ IF outcome # "raise"
       THEN /\ op_result' = outcome
            /\ handled' = RetryResult(outcome)
            /\ pc' = "handler"
            /\ UNCHANGED <<retry_attempts, attempt>>
       ELSE /\ retry_attempts' = Put(retry_attempts, error_type,
                                     Get(retry_attempts, error_type) + 1)
            /\ attempt' = attempt + 1
            /\ UNCHANGED op_result
            /\ IF attempt' = MaxRetries
               THEN pc' = "handler" /\ handled' = "None"
               ELSE pc' = "retry" /\ handled' = "pending"
    /\ UNCHANGED <<error_count, error_types, error_type, operation, retryAtCall, prog, storeVars,
                   monitorVars, validatedVars, validatorVars, laterVars>>

\* ErrorHandler.calculate_success_rate, as the fraction [num, den]: 1.0
\* without retry_attempts, else the error types whose count of failed
\* attempts is positive over the error types in retry_attempts
calculate_success_rate(attempts) ==
    IF DOMAIN attempts = {}
    THEN [num |-> 1, den |-> 1]
    ELSE [num |-> Cardinality({k \in DOMAIN attempts : attempts[k] > 0}),
          den |-> Cardinality(DOMAIN attempts)]

\* the 'success_rate' of ErrorHandler.get_error_report
get_error_report == [success_rate |-> calculate_success_rate(retry_attempts)]

\* --------------------------- validated_processor_final, data_validation.py
\* longest list of transactions a caller passes
MaxInput == 2

\* A transaction dict as the validators see it.  has_fields: the four
\* required keys are there.  amount: k = "num" (a number v), "str" (the text
\* of the number v), "nan" (float('nan')), "junk" (other text) or "none";
\* timestamp: "iso", "junk" (text that is no ISO date) or "nonstr" (no text).
Amount(k, v) == [k |-> k, v |-> v]
Transaction(f, a, ts) == [has_fields |-> f, amount |-> a, timestamp |-> ts]

\* the transactions of test_final_validated and main, and one for each way
\* through validate_transaction
Transactions ==
    {Transaction(TRUE, Amount("num", 100), "iso"),
     Transaction(TRUE, Amount("num", 200), "iso"),
     Transaction(TRUE, Amount("num", -50), "iso"),
     Transaction(TRUE, Amount("num", 0), "iso"),
     Transaction(TRUE, Amount("str", 100), "iso"),
     Transaction(TRUE, Amount("str", -50), "iso"),
     Transaction(TRUE, Amount("nan", 0), "iso"),
     Transaction(TRUE, Amount("junk", 0), "iso"),
     Transaction(TRUE, Amount("none", 0), "iso"),
     Transaction(TRUE, Amount("num", 50), "junk"),
     Transaction(TRUE, Amount("num", 50), "nonstr"),
     Transaction(FALSE, Amount("num", 100), "iso")}

\* AdvancedDataValidator.validate_transaction
validate_transaction(t) ==
    IF ~t.has_fields THEN FALSE
    ELSE IF t.amount.k \in {"junk", "none"} THEN FALSE
    ELSE IF t.amount.k \in {"num", "str"} /\ t.amount.v <= 0 THEN FALSE
    ELSE t.timestamp = "iso"

\* the elements of q that satisfy validate_transaction, in order
RECURSIVE validate_batch(_)
validate_batch(q) ==
    IF q = <<>> THEN <<>>
    ELSE (IF validate_transaction(Head(q)) THEN <<Head(q)>> ELSE <<>>)
         \o validate_batch(Tail(q))

\* transaction.get('amount', 0) > 0 raises for a text
ComparisonRaises(t) == t.has_fields /\ t.amount.k \in {"str", "junk", "none"}

\* ValidatedBatchProcessor._fallback_process: the number of transactions with
\* amount > 0, or -1 when a comparison raised
RECURSIVE _fallback_process(_)
_fallback_process(q) ==
    IF q = <<>> THEN 0
    ELSE IF ComparisonRaises(Head(q)) THEN -1
    ELSE LET rest == _fallback_process(Tail(q))
             one == IF Head(q).has_fields /\ Head(q).amount.k = "num" /\ Head(q).amount.v > 0
                    THEN 1 ELSE 0
         IN IF rest = -1 THEN -1 ELSE one + rest

\* ValidatedBatchProcessor.process_with_existing_pipeline: database.py has no
\* DatabaseManager, the import raises and the except clause falls back
process_with_existing_pipeline(q) == _fallback_process(q)

\* ValidatedBatchProcessor.run_validated_pipeline on the list obtained in
\* its step 1
run_validated_pipeline(input_data) ==
    /\ prog = "VPF"
    /\ pc = "pipeline"
    /\ transactions' = input_data
    /\ LET valid_transactions == validate_batch(input_data)
           processed_count == process_with_existing_pipeline(valid_transactions)
       IN IF input_data = <<>>
          THEN /\ pipeline_result' = [NoResult EXCEPT !.error = "No transactions"]
               /\ handed' = handed
               /\ pc' = "returned"
          ELSE IF valid_transactions = <<>>
          THEN /\ pipeline_result' = [success |-> FALSE, processed_count |-> 0,
                             original_count |-> Len(input_data), valid_count |-> 0,
                             rejected_count |-> Len(input_data),
                             error |-> "All transactions failed validation"]
               /\ handed' = handed
               /\ pc' = "returned"
          ELSE /\ handed' = Append(handed, valid_transactions)
               /\ IF processed_count = -1
                  THEN pipeline_result' = NoResult /\ pc' = "raised"
                  ELSE /\ pc' = "returned"
                       /\ pipeline_result' = [success |-> TRUE, processed_count |-> processed_count,
                                     original_count |-> Len(input_data),
                                     valid_count |-> Len(valid_transactions),
                                     rejected_count |-> Len(input_data) - Len(valid_transactions),
                                     error |-> "none"]
    /\ UNCHANGED <<prog, storeVars, monitorVars, handlerVars, validatorVars, laterVars>>

\* the lists a caller may pass
InputLists == UNION {[1..n -> Transactions] : n \in 0..MaxInput}

\* ------------------------------------------- validated_processor_database
\* the public attributes of a DatabaseClient
DatabaseClientMethods ==
    {"insert_transaction_batch", "get_transaction_count", "test_connection", "close"}

\* the write methods save_to_database looks for, in the order it tries them
save_methods == <<"save_batch_transactions", "insert_transactions", "save_transactions",
                  "process_batch", "batch_insert">>
individual_methods == <<"save_transaction", "insert_transaction", "add_transaction">>

\* hasattr(self.db, name)
hasattr(obj, name) == obj = "DatabaseClient" /\ name \in DatabaseClientMethods

\* the names of the list that obj has
Present(obj, names) == {i \in 1..Len(names) : hasattr(obj, names[i])}

\* what a write method answers when it is called: a true value, a false
\* value, or an exception
WriteEvents == {"ok", "falsy", "raise"}

\* save_to_database calls a method of obj
CallsWriteMethod(obj) ==
    Present(obj, save_methods) # {} \/ Present(obj, individual_methods) # {}

\* ValidatedBatchProcessor.save_to_database: the count it returns (-1 when
\* the fallback's comparison raises) and the lists it passed to write methods
\* of the database object that did not raise.  ev: the answer of the write
\* method to each call.
save_to_database(obj, q, ev) ==
    IF obj = "None"
    THEN [count |-> _fallback_process(q), passed |-> <<>>]
    ELSE IF Present(obj, save_methods) # {}
    THEN \* the method's result is not looked at; an exception goes to the
         \* outer except clause and the fallback
         IF ev = "raise"
         THEN [count |-> _fallback_process(q), passed |-> <<>>]
         ELSE [count |-> Len(q), passed |-> <<q>>]
    ELSE IF Present(obj, individual_methods) # {}
    THEN \* a true answer counts the transaction and breaks; after a false
         \* one the for-else counts it all the same; an exception skips it
         IF ev = "raise"
         THEN [count |-> 0, passed |-> <<>>]
         ELSE [count |-> Len(q), passed |-> [i \in 1..Len(q) |-> <<q[i]>>]]
    ELSE \* no write method: the for-else counts every transaction
         [count |-> Len(q), passed |-> <<>>]

\* what EnhancedDataGenerator.generate_transaction makes: every field, an
\* amount between 1.0 and 5000.0, an ISO timestamp
Generated == {Transaction(TRUE, Amount("num", 100), "iso"),
              Transaction(TRUE, Amount("num", 200), "iso")}
GeneratedBatches == UNION {[1..n -> Generated] : n \in 0..MaxInput}

\* ValidatedBatchProcessor.run_production_pipeline on the batch the
\* generator made; validate_transactions divides by the batch's length
run_production_pipeline(batch, ev) ==
    /\ prog = "VPD"
    /\ pc = "production"
    /\ ~CallsWriteMethod(db) => ev = "ok"
    /\ transactions' = batch
    /\ LET valid_transactions == validate_batch(batch)
           saved == save_to_database(db, valid_transactions, ev)
       IN IF batch = <<>>
          THEN /\ pipeline_result' = NoResult
               /\ written' = written
               /\ pc' = "raised"
          ELSE IF valid_transactions = <<>>
          THEN /\ pipeline_result' = [success |-> FALSE, processed_count |-> 0,
                             original_count |-> Len(batch), valid_count |-> 0,
                             rejected_count |-> Len(batch),
                             error |-> "All transactions failed validation"]
               /\ written' = written
               /\ pc' = "produced"
          ELSE /\ written' = written \o saved.passed
               /\ IF saved.count = -1
                  THEN pipeline_result' = NoResult /\ pc' = "raised"
                  ELSE /\ pc' = "produced"
                       /\ pipeline_result' = [success |-> TRUE, processed_count |-> saved.count,
                                     original_count |-> Len(batch),
                                     valid_count |-> Len(valid_transactions),
                                     rejected_count |-> Len(batch) - Len(valid_transactions),
                                     error |-> "none"]
    /\ UNCHANGED <<prog, storeVars, monitorVars, handlerVars, handed, validatorVars, connectVars, db,
                   extraVars>>

\* ------------------------------------ the chunk loops and the ceiling
\* enhanced_processor_final_fixed: if total_processed >= demo_limit: break,
\* at the top of the loop body
BeforeCeilingReached(total, L) == total >= L

\* simple_batch_backup: if total_processed >= 300000: break, after the chunk
AfterCeilingReachedStrictly(total, L) == total > L
AfterCeilingReached(total, L) == total >= L

\* The loop of process_enhanced_pipeline over the chunks src with
\* total_processed = total so far: the ceiling is tested before the chunk.
RECURSIVE check_before(_, _, _)
check_before(src, L, total) ==
    IF src = <<>> THEN Run(<<>>, total)
    ELSE IF BeforeCeilingReached(total, L) THEN Run(<<>>, total)
    ELSE LET rest == check_before(Tail(src), L, total + Head(src))
         IN Run(<<Head(src)>> \o rest.ingested, rest.total_processed)

\* The loop of process_full_pipeline: the ceiling is tested after the chunk.
RECURSIVE check_after(_, _, _)
check_after(src, L, total) ==
    IF src = <<>> THEN Run(<<>>, total)
    ELSE IF AfterCeilingReached(total + Head(src), L)
         THEN Run(<<Head(src)>>, total + Head(src))
    ELSE LET rest == check_after(Tail(src), L, total + Head(src))
         IN Run(<<Head(src)>> \o rest.ingested, rest.total_processed)

\* Both variants are run over the file, each from total_processed = 0.
RunBothVariants ==
    /\ prog = "CEIL"
    /\ pc = "variants"
    /\ variant_runs' = [before |-> check_before(chunk_source, ceiling, 0),
                        after |-> check_after(chunk_source, ceiling, 0)]
    /\ pc' = "compared"
    /\ UNCHANGED <<prog, storeVars, monitorVars, handlerVars, validatedVars, validatorVars,
                   connectVars, productionVars, chunk_source, ceiling, schedulerVars,
                   controllerVars>>

\* ------------------------------------------------ scheduler.BatchScheduler
\* most jobs a scheduler runs; the records job_history keeps (100 in the
\* code, scaled down)
MaxJobs == 4
HistoryCap == 2

\* how the batch processor's subprocess ends: return code 0, another return
\* code, subprocess.TimeoutExpired, or another exception of subprocess.run
JobOutcomes == {"zero", "nonzero", "timeout", "raised"}

\* the status run_batch_job gives the job record
JobStatus(outcome) ==
    CASE outcome = "zero" -> "success"
      [] outcome = "nonzero" -> "failed"
      [] outcome = "timeout" -> "timeout"
      [] OTHER -> "error"

\* the branches that add one to jobs_failed
CountedFailedButTimeout(status) == status \in {"failed", "error"}
CountedFailed(status) == status \in {"failed", "timeout", "error"}

\* self.job_history[-100:] when the list is longer than that
KeepFirst(h) == IF Len(h) > HistoryCap THEN SubSeq(h, 1, HistoryCap) ELSE h
KeepLast(h) == IF Len(h) > HistoryCap THEN SubSeq(h, Len(h) - HistoryCap + 1, Len(h)) ELSE h

\* BatchScheduler.run_batch_job: the record starts as 'running', the branch
\* the subprocess took sets its status and one counter, then jobs_executed
\* is counted and the record appended.  seq: the job's place in the
\* scheduler's executions, which stands for its job_id and start_time.
run_batch_job(outcome) ==
    /\ prog = "SCH"
    /\ pc = "scheduler"
    /\ scheduler_stats.jobs_executed < MaxJobs
    /\ LET job_record == [seq |-> scheduler_stats.jobs_executed + 1, status |-> "running"]
           done == [job_record EXCEPT !.status = JobStatus(outcome)]
       IN /\ scheduler_stats' =
                [jobs_executed |-> scheduler_stats.jobs_executed + 1,
                 jobs_succeeded |-> scheduler_stats.jobs_succeeded
                                      + (IF done.status = "success" THEN 1 ELSE 0),
                 jobs_failed |-> scheduler_stats.jobs_failed
                                   + (IF CountedFailed(done.status) THEN 1 ELSE 0)]
          /\ job_history' = KeepLast(Append(job_history, done))
    /\ UNCHANGED <<prog, pc, storeVars, monitorVars, handlerVars, validatedVars, validatorVars,
                   connectVars, productionVars, ceilingVars, controllerVars>>

\* ------------------------------------- scheduler_control.SchedulerController
\* is_scheduler_running_simple: the PID file holds a PID and os.kill(pid, 0)
\* finds a process with it, whatever that process is
is_scheduler_running_simple(file, table) == file # NoPid /\ table[file] # "free"

\* the controller c is at position q of its command
At(c, q) == prog = "CTL" /\ ctl[c].pc = q
Goto(c, q) == ctl' = [ctl EXCEPT ![c].pc = q]

\* where a controller goes when stop_scheduler returns: back to the prompt,
\* or on to the start_scheduler of restart_scheduler
AfterStop(c) ==
    ctl' = [ctl EXCEPT ![c] = IF ctl[c].then_start
                               THEN [Idle EXCEPT !.pc = "start_pending"]
                               ELSE Idle]

\* restart_scheduler: its own check, then stop_scheduler if it found the
\* scheduler running, then start_scheduler
RestartCheck(c) ==
    /\ At(c, "idle")
    /\ ctl' = [ctl EXCEPT ![c] =
                 IF is_scheduler_running_simple(pid_file, procs)
                 THEN [Idle EXCEPT !.pc = "stop_pending", !.then_start = TRUE]
                 ELSE [Idle EXCEPT !.pc = "start_pending"]]
    /\ UNCHANGED <<pid_file, procs>>

\* start_scheduler, the check of its first lines: return False when a
\* scheduler is found running, go on to spawn one otherwise
StartCheck(c) ==
    /\ At(c, "idle") \/ At(c, "start_pending")
    /\ IF is_scheduler_running_simple(pid_file, procs)
       THEN ctl' = [ctl EXCEPT ![c] = Idle]
       ELSE Goto(c, "start_checked")
    /\ UNCHANGED <<pid_file, procs>>

\* start_scheduler, subprocess.Popen: a scheduler process with a free PID
StartSpawn(c, p) ==
    /\ At(c, "start_checked")
    /\ procs[p] = "free"
    /\ procs' = [procs EXCEPT ![p] = "scheduler"]
    /\ ctl' = [ctl EXCEPT ![c].pc = "spawned", ![c].pid = p]
    /\ UNCHANGED pid_file

\* start_scheduler, save_pid: the PID file is overwritten
StartSavePid(c) ==
    /\ At(c, "spawned")
    /\ pid_file' = ctl[c].pid
    /\ ctl' = [ctl EXCEPT ![c].pc = "saved", ![c].pid = NoPid]
    /\ UNCHANGED procs

\* start_scheduler, after the sleep: the second check decides what is
\* printed and returned
StartRecheck(c) ==
    /\ At(c, "saved")
    /\ ctl' = [ctl EXCEPT ![c] = Idle]
    /\ UNCHANGED <<pid_file, procs>>

\* stop_scheduler, the check of its first lines
StopCheck(c) ==
    /\ At(c, "idle") \/ At(c, "stop_pending")
    /\ Goto(c, IF is_scheduler_running_simple(pid_file, procs)
               THEN "stop_checked" ELSE "removing")
    /\ UNCHANGED <<pid_file, procs>>

\* stop_scheduler: os.remove(self.pid_file) if the file exists, return True
StopRemovePidFile(c) ==
    /\ At(c, "removing")
    /\ pid_file' = NoPid
    /\ AfterStop(c)
    /\ UNCHANGED procs

\* the process the signal went to ends, or is still there after the sleep
KillEffects == {"dies", "survives"}

\* stop_scheduler: get_saved_pid reads the file again and `kill pid` signals
\* the process that has this PID now
StopKill(c, effect) ==
    /\ At(c, "stop_checked")
    /\ IF pid_file = NoPid
       THEN \* "No scheduler PID found", return True
            /\ effect = "dies"
            /\ AfterStop(c)
            /\ UNCHANGED procs
       ELSE /\ procs[pid_file] = "free" => effect = "dies"
            /\ procs' = IF effect = "dies" THEN [procs EXCEPT ![pid_file] = "free"]
                        ELSE procs
            /\ Goto(c, "killed")
    /\ UNCHANGED pid_file

\* stop_scheduler, after the sleep: the PID file is removed when the check
\* finds nothing running, "Failed to stop scheduler" otherwise
StopRecheck(c) ==
    /\ At(c, "killed")
    /\ IF is_scheduler_running_simple(pid_file, procs)
       THEN AfterStop(c)
       ELSE Goto(c, "removing")
    /\ UNCHANGED <<pid_file, procs>>

\* A scheduler process exits on its own; its PID file stays.
SchedulerExits(p) ==
    /\ prog = "CTL"
    /\ procs[p] = "scheduler"
    /\ procs' = [procs EXCEPT ![p] = "free"]
    /\ UNCHANGED <<pid_file, ctl>>

\* The operating system gives a free PID to a process that is no scheduler,
\* and such a process ends.
OtherProcess(p) ==
    /\ prog = "CTL"
    /\ procs[p] \in {"free", "other"}
    /\ procs' = [procs EXCEPT ![p] = IF procs[p] = "free" THEN "other" ELSE "free"]
    /\ UNCHANGED <<pid_file, ctl>>

\* a step of a controller or of the processes around it
ControllerStep ==
    /\ \/ \E c \in Controllers :
            \/ RestartCheck(c) \/ StartCheck(c) \/ StartSavePid(c) \/ StartRecheck(c)
            \/ StopCheck(c) \/ StopRemovePidFile(c) \/ StopRecheck(c)
            \/ \E p \in Pids : StartSpawn(c, p)
            \/ \E effect \in KillEffects : StopKill(c, effect)
       \/ \E p \in Pids : SchedulerExits(p) \/ OtherProcess(p)
    /\ UNCHANGED <<prog, pc, storeVars, monitorVars, handlerVars, validatedVars, validatorVars,
                   connectVars, productionVars, ceilingVars, schedulerVars>>

\* -------------------------------------------- data_validator.DataValidator
\* A transaction dict as DataValidator sees it.  amount as above; timestamp:
\* "ok", "old" (before 2020), "junk" or "none"; account: account_id is not
\* empty; currency: the currency code
Record(a, ts, acc, cur) == [amount |-> a, timestamp |-> ts, account |-> acc, currency |-> cur]

\* the five transactions of test_validator, and one whose amount is a text
Records ==
    {Record(Amount("num", 100), "ok", TRUE, "USD"),
     Record(Amount("num", 250), "ok", TRUE, "EUR"),
     Record(Amount("num", -50), "ok", FALSE, "USD"),
     Record(Amount("num", 5000000), "old", TRUE, "XYZ"),
     Record(Amount("num", 75), "junk", TRUE, "USD"),
     Record(Amount("num", 75), "none", TRUE, "USD"),
     Record(Amount("str", 100), "ok", TRUE, "USD")}

\* DataValidator.validate_transaction: "raised" when a comparison of the
\* amount raises, else whether every check passed
DataValidator_validate_transaction(t) ==
    IF t.amount.k # "num" THEN "raised"
    ELSE IF /\ t.amount.v > 0
            /\ t.timestamp = "ok"
            /\ t.account
            /\ t.amount.v <= 1000000
            /\ t.currency \in {"USD", "EUR", "GBP"}
         THEN "valid" ELSE "invalid"

\* The loop of DataValidator.validate_batch over q from counts c on: the
\* counts, the error records appended, and whether a call raised
RECURSIVE ValidateLoop(_, _)
ValidateLoop(q, c) ==
    IF q = <<>> THEN c
    ELSE LET v == DataValidator_validate_transaction(Head(q)) IN
         CASE v = "raised" -> [c EXCEPT !.raised = TRUE]
           [] v = "valid" -> ValidateLoop(Tail(q), [c EXCEPT !.valid_count = @ + 1])
           [] OTHER -> ValidateLoop(Tail(q), [c EXCEPT !.invalid_count = @ + 1,
                                                      !.errors = Append(@, Head(q))])

\* DataValidator.validate_batch
DataValidator_validate_batch(input) ==
    /\ prog = "DV"
    /\ pc = "validator"
    /\ transactions' = input
    /\ LET c == ValidateLoop(input, [valid_count |-> 0, invalid_count |-> 0,
                                      errors |-> validation_errors, raised |-> FALSE])
       IN /\ validation_errors' = c.errors
          /\ IF c.raised
             THEN pc' = "raised" /\ batch_result' = NoBatchResult
             ELSE /\ pc' = "validated"
                  /\ batch_result' = [valid_count |-> c.valid_count,
                                      invalid_count |-> c.invalid_count,
                                      total_processed |-> Len(input)]
    /\ UNCHANGED <<report, handed, pipeline_result, prog, storeVars, monitorVars,
                   handlerVars, laterVars>>

\* total_checked = len(self.validation_errors) + sum(1 for _ in self.validation_errors)
total_checked(errors) == Len(errors) + Len(errors)

\* DataValidator.get_validation_report: its summary
get_validation_report ==
    /\ prog = "DV"
    /\ pc = "validated"
    /\ LET total == total_checked(validation_errors)
           errors == Len(validation_errors)
       IN report' = [total_checked |-> total,
                     errors_count |-> errors,
                     error_rate |-> IF total > 0 THEN [num |-> errors, den |-> total]
                                    ELSE [num |-> 0, den |-> 1],
                     success_rate |-> IF total > 0 THEN [num |-> total - errors, den |-> total]
                                      ELSE [num |-> 1, den |-> 1]]
    /\ pc' = "reported"
    /\ UNCHANGED <<validation_errors, batch_result, validatedVars, prog, storeVars,
                   monitorVars, handlerVars, laterVars>>

\* the lists a caller may pass to validate_batch
RecordLists == UNION {[1..n -> Records] : n \in 0..MaxInput}

\* the rows the source file may hold
SourceRows == IF fileCap <= ShortFile THEN Rows ELSE CoreRows
YearSourceRows == IF fileCap <= ShortFile THEN YearRows ELSE YearCoreRows

Next ==
    \/ \E ev \in SinkEvents : TestConnections(ev)
    \/ \E raw \in RawEvents : StartChunk(raw)
    \/ \E r \in SourceRows, ev \in SinkEvents : ProcessRow(r, ev)
    \/ \E ev \in SinkEvents : FinishChunk(ev)
    \/ \E ev \in SinkEvents : LimitBreak(ev)
    \/ \E ev \in SinkEvents : SourceExhausted(ev)
    \/ \E outcome \in ConnectOutcomes : ConnectWithRetry(outcome)
    \/ FwpEnter
    \/ FwpStartChunk
    \/ \E n \in 1..BatchSize, ev \in SinkEvents, evc \in SinkEvents :
          \E batch \in BatchesOf(n) : FwpInsertBatch(batch, ev, evc)
    \/ \E raw \in RawEvents, raised \in EndOutcomes : FwpFinishChunk(raw, raised)
    \/ \E raised \in EndOutcomes : FwpEnd(raised)
    \/ Interrupt
    \/ \E n \in 1..BatchSize, committed \in BOOLEAN :
          \E batch \in BatchesOf(n) : InterruptInsert(batch, committed)
    \/ \E n \in 1..ChunkSize, last \in BOOLEAN, ev \in SinkEvents :
          \E rows \in [1..n -> SbbRows] : SbbChunk(rows, last, ev)
    \/ SbbExhausted
    \/ start_batch
    \/ \E records_attempted \in 0..MaxRecorded, records_successful \in 0..MaxRecorded :
          records_successful <= records_attempted
          /\ record_processing(records_attempted, records_successful)
    \/ \E raised \in EndOutcomes : end_batch(raised)
    \/ \E ev \in SinkEvents : SbbAfterLoop(ev)
    \/ YearStartChunk
    \/ \E r \in YearSourceRows, ev \in SinkEvents : YearRow(r, ev)
    \/ \E ev \in SinkEvents : YearFinishChunk(ev)
    \/ YearEnd
    \/ \E et \in ErrorTypes, has_operation \in BOOLEAN : handle_error(et, has_operation)
    \/ \E outcome \in OperationOutcomes : retry_operation(outcome)
    \/ \E input_data \in InputLists : run_validated_pipeline(input_data)
    \/ \E input \in RecordLists : DataValidator_validate_batch(input)
    \/ get_validation_report
    \/ \E batch \in GeneratedBatches, ev \in WriteEvents : run_production_pipeline(batch, ev)
    \/ RunBothVariants
    \/ \E outcome \in JobOutcomes : run_batch_job(outcome)
    \/ ControllerStep

Spec == Init /\ [][Next]_vars

TypeOK ==
    /\ pc \in {"start", "loop", "rows", "batches", "after_loop", "done", "aborted", "crashed",
              "interrupted", "monitor", "year_rows", "handler", "retry", "pipeline", "returned", "raised",
              "validator", "validated", "reported", "production", "produced", "variants", "compared", "scheduler", "control"}
    /\ conn \in {"ready", "intrans", "inerror", "closed"}
    /\ idx \in 0..(chunkLen + BatchSize)
    /\ rowsPulled \in 0..(MaxRows + ChunkSize)

\* ================================================================= claims
\* the rows the loop has tallied in the four counters
Tallied == records_stored + date_errors + numeric_errors + other_errors

\* a step of the row loop body: the counters move by exactly s, d, n and o
CountersStep(s, d, n, o) ==
    /\ records_stored' = records_stored + s
    /\ date_errors' = date_errors + d
    /\ numeric_errors' = numeric_errors + n
    /\ other_errors' = other_errors + o

\* the step is one pass of the row loop body
RowStep == pc = "rows" /\ idx' = idx + 1

\* C1: in store_processed_data_postgres (enhanced_processor_final_fixed) and
\* process_chunk (correct_fixed_processor) the rows handled so far equal
\* stored + date_errors + numeric_errors + other_errors (so len(chunk) when
\* the row loop ends), and every pass of the loop body adds one to exactly
\* one of the four counters.
C1_RowCountedOnce ==
    /\ [](pc = "rows" /\ prog \in {"EPFF", "CFP"} => idx = Tallied)
    /\ [][RowStep /\ prog \in {"EPFF", "CFP"} =>
            \/ CountersStep(1, 0, 0, 0)
            \/ CountersStep(0, 1, 0, 0)
            \/ CountersStep(0, 0, 1, 0)
            \/ CountersStep(0, 0, 0, 1)]_vars

\* C1 witness: the row loop of correct_fixed_processor has ended on a full
\* chunk with a stored row and a row rejected by the except clause
C1_Witness ==
    /\ prog = "CFP" /\ pc = "rows" /\ idx = chunkLen /\ chunkLen = ChunkSize
    /\ records_stored >= 1 /\ other_errors >= 1

\* a chunk (or batch) has been handed to the store all of whose keys were in
\* the committed table before
Replay == issued # {} /\ issued \subseteq Range(sinkAtStart)

\* C2: ingesting again a batch of valid rows whose keys the table already
\* holds leaves the table's row count as the first ingestion left it, with
\* ON CONFLICT DO NOTHING (enhanced_processor_final_fixed) and with the
\* rolled back plain INSERT of database.py alike.
C2_ReplayKeepsCount ==
    (prog \in {"EPFF", "FWP"} /\ Replay) =>
        /\ Len(sink) = Len(sinkAtStart)
        /\ Cardinality(Range(sink)) = Len(sink)

\* C2 witness: the second chunk of a run repeated the two rows of the first
\* and was committed
C2_Witness ==
    /\ prog = "EPFF" /\ pc = "loop" /\ chunk_number = 2 /\ conn = "ready"
    /\ issued = {"T1", "T2"} /\ Replay /\ success_count = 2

\* C3: when a chunk whose rows are all in the table already is ingested
\* again, the count returned for it and added to total_stored is 0, and
\* nothing is raised.
C3_ReplayCountsNothing ==
    [][(prog = "EPFF" /\ pc = "rows" /\ pc' = "loop" /\ conn = "intrans"
            /\ issued # {} /\ issued \subseteq Range(sink))
        => (success_count' = 0 /\ total_stored' = total_stored)]_vars

\* the text of a date cell is absent or matches none of the formats
FailsEveryCandidate(fmts, r) ==
    r.k = "nan" \/ \A n \in 1..Len(fmts) : Strptime(fmts[n], r) = NoDate

\* the formats the variant tries on TransactionDate
CandidateFormats(p) ==
    IF p = "EPFF" THEN TransactionDateFormats ELSE <<"%m/%d/%y">>

\* C4: a row whose transaction date is absent or fails every candidate format
\* adds one to date_errors and to no other counter, and no INSERT is issued.
C4_NoFormatIsDateError ==
    [][(RowStep /\ prog \in {"EPFF", "CFP"}
            /\ FailsEveryCandidate(CandidateFormats(prog), row'.tdate))
        => (CountersStep(0, 1, 0, 0) /\ params' = NoParams /\ UNCHANGED pending)]_vars

\* C5: the run's total_stored never exceeds the ceiling by a whole chunk,
\* whether the ceiling is tested on total_processed or on total_stored.
C5_StoredWithinOvershoot ==
    prog \in {"EPFF", "FWP"} => total_stored <= DemoLimit + ChunkSize - 1

\* C5 witness: a run has ended with the largest overshoot
C5_Witness ==
    /\ prog \in {"EPFF", "FWP"} /\ pc = "done"
    /\ total_stored = DemoLimit + ChunkSize - 1

\* the store answered every call made for the last batch with a transient error
EveryAttemptFailed(calls) ==
    calls # <<>> /\ \A n \in 1..Len(calls) : calls[n] = "error"

\* C6: a batch on which the store raises a transient error at every attempt
\* is given up only after max_retries attempts; it then adds nothing to the
\* chunk's stored count and the batch loop goes on.
C6_GivenUpAfterRetries ==
    [][(prog = "FWP" /\ pc = "batches" /\ idx' > idx /\ EveryAttemptFailed(sinkCalls'))
        => /\ Len(sinkCalls') >= MaxRetries
           /\ chunk_stored' = chunk_stored
           /\ pc' = "batches"]_vars

\* the identifiers, the transaction date and both amounts of the row pass
\* the variant's checks
RequiredValid(p, r) ==
    /\ r.tid # NaNStr /\ r.cid # NaNStr
    /\ TxnDateOf(p, r) # NoDate
    /\ NumOf(p, r.bal) # NoneNum /\ NumOf(p, r.amt) # NoneNum

MissingKey(r) == r.tid = NaNStr \/ r.cid = NaNStr
BadDate(p, r) == TxnDateOf(p, r) = NoDate
BadNumeric(p, r) == NumOf(p, r.bal) = NoneNum \/ NumOf(p, r.amt) = NoneNum

\* C8 as stated: a missing identifier decides the category before the date
\* and the amounts are looked at; then the date, then the amounts.
C8_IdsCheckedFirst ==
    [][(RowStep /\ prog \in {"EPFF", "EPF"})
        => /\ MissingKey(row') => CountersStep(0, 0, 0, 1)
           /\ (~MissingKey(row') /\ BadDate(prog, row')) => CountersStep(0, 1, 0, 0)
           /\ (~MissingKey(row') /\ ~BadDate(prog, row') /\ BadNumeric(prog, row'))
                 => CountersStep(0, 0, 1, 0)]_vars

\* C8 amended: the first failing check decides the category in the order
\* transaction date (date_errors), balance and amount (numeric_errors),
\* identifiers (other_errors); a row failing a check gets no INSERT.
C8_DateCheckedFirst ==
    [][(RowStep /\ prog \in {"EPFF", "EPF"})
        => /\ BadDate(prog, row') => (CountersStep(0, 1, 0, 0) /\ params' = NoParams)
           /\ (~BadDate(prog, row') /\ BadNumeric(prog, row'))
                 => (CountersStep(0, 0, 1, 0) /\ params' = NoParams)
           /\ (~BadDate(prog, row') /\ ~BadNumeric(prog, row') /\ MissingKey(row'))
                 => (CountersStep(0, 0, 0, 1) /\ params' = NoParams)]_vars

\* C8 witness: a row with no TransactionID and an unreadable date has been
\* counted as a date error
C8_Witness ==
    /\ prog \in {"EPFF", "EPF"} /\ pc = "rows"
    /\ MissingKey(row) /\ row.tdate = JunkDate
    /\ date_errors = 1 /\ other_errors = 0

\* C9: no step of the chunk loop or the batch loop of final_working_processor
\* and simple_batch_backup ends the run, whatever the store answers.
C9_SinkFailureNeverAborts ==
    [][(prog \in {"FWP", "SBB"} /\ pc \in {"loop", "batches"})
        => pc' \notin {"crashed", "aborted"}]_vars

\* C10: when a chunk has been handled and the connection is in order, every
\* row of it that was fit to store (simple_batch_backup: its date converts;
\* enhanced_processor_final_fixed: its INSERT did not raise) is in the table,
\* whatever happened to the other rows of the chunk.
C10_ValidRowsPersisted ==
    (prog \in {"EPFF", "SBB"} /\ pc \in {"loop", "after_loop"} /\ conn = "ready")
        => issued \subseteq Range(sink)

\* the run has ended without completing: process_enhanced_pipeline returned
\* False, or an exception left process_large_dataset
RunAborted == pc \in {"aborted", "crashed"}

\* C11: a run of enhanced_processor_final_fixed or final_working_processor
\* is aborted only at start-up, before any chunk has been pulled or handed to
\* the store; no chunk's store failure aborts it.
C11_AbortedOnlyAtStartup ==
    (prog \in {"EPFF", "FWP"} /\ RunAborted) =>
        /\ chunk_number = 0 /\ rowsPulled = 0
        /\ total_processed = 0 /\ sink = sinkAtStart /\ issued = {}

\* C12: once total_processed has reached the ceiling, the next step of the
\* chunk loop pulls nothing from the source and ends the run as completed.
C12_CeilingEndsRun ==
    [][(prog \in {"EPFF", "CFP"} /\ pc = "loop" /\ total_processed >= DemoLimit)
        => (rowsPulled' = rowsPulled /\ pc' = "done")]_vars

\* the rows final_working_processor's current chunk has added to the table
ChunkCommitted == Len(sink) - Len(sinkAtChunk)

\* C13: when process_large_dataset has finished a chunk, all of the chunk's
\* rows are in the table or none of them is.
C13_ChunkAllOrNothing ==
    (prog = "FWP" /\ pc = "loop" /\ chunk_number > 0) => ChunkCommitted \in {0, chunkLen}

\* the connection has no transaction open: the last one was committed or
\* rolled back, or the connection is gone
NoOpenTransaction(c) == c \in {"ready", "closed"}

C15_InterruptLeavesWholeChunks ==
    (prog = "FWPF" /\ pc = "interrupted" /\ chunk_number > 0)
        => ChunkCommitted \in {0, chunkLen}

\* C16: a raw backup that fails is only reported.  In
\* enhanced_processor_final_fixed the chunk still enters the row loop and the
\* count returned for it is the row loop's records_stored; in
\* final_working_processor_backup the chunk's stored count is added to the
\* total as it stands, the table is untouched and the chunk loop goes on.
C16_BackupFailureOnlyLogged ==
    /\ [][(prog = "EPFF" /\ pc = "loop" /\ chunk_number' # chunk_number
                /\ ~LimitReached(prog, total_processed, total_stored)
                /\ rawBackup' = "error")
            => /\ pc' = IF conn = "closed" THEN "loop" ELSE "rows"
               /\ sink' = sink /\ total_stored' = total_stored]_vars
    /\ [][(prog = "EPFF" /\ pc = "rows" /\ pc' = "loop" /\ rawBackup = "error"
                /\ conn' = "ready")
            => /\ success_count' = records_stored
               /\ total_stored' = total_stored + records_stored]_vars
    /\ [][(prog = "FWPB" /\ pc = "batches" /\ rawBackup' = "error")
            => /\ pc' = "loop"
               /\ total_stored' = total_stored + chunk_stored
               /\ sink' = sink]_vars

\* C16 witness: the backup of the chunk failed and the row loop has stored
\* every row of it
C16_Witness ==
    /\ prog = "EPFF" /\ pc = "rows" /\ rawBackup = "error"
    /\ idx = chunkLen /\ records_stored = chunkLen /\ chunkLen = ChunkSize

RECURSIVE SumSeq(_)
SumSeq(q) == IF q = <<>> THEN 0 ELSE Head(q) + SumSeq(Tail(q))

\* C17: the monitor's totals are the fold of the batches in metrics_history
\* (total_records_processed their sum, total_batches their number), and
\* total_stored of process_large_dataset starts at 0 and changes only when a
\* chunk is finished, by that chunk's chunk_stored.
C17_TotalsAreFolds ==
    /\ [](prog = "MON" =>
            /\ performance_stats.total_records_processed = SumSeq(metrics_history)
            /\ performance_stats.total_batches = Len(metrics_history))
    /\ (prog = "FWP" => total_stored = 0)
    /\ [][prog = "FWP" =>
            total_stored' = IF pc = "batches" /\ pc' = "loop"
                            THEN total_stored + chunk_stored ELSE total_stored]_vars

\* C17 witness: two batches with records have ended and a third is being
\* recorded
C17_Witness ==
    /\ prog = "MON" /\ Len(metrics_history) = 2 /\ SumSeq(metrics_history) = 3
    /\ current_batch.active /\ current_batch.records_processed = 1

\* ------------------------------------------------------------ date claims
\* the reading of a/b/yy that a role prefers, and the other one when the
\* preferred order is no date at all
RoleReading(field_name, r) ==
    LET preferred == IF field_name = "TransactionDate" THEN "%m/%d/%y" ELSE "%d/%m/%y"
        other == IF field_name = "TransactionDate" THEN "%d/%m/%y" ELSE "%m/%d/%y"
    IN IF Strptime(preferred, r) # NoDate THEN Strptime(preferred, r)
       ELSE Strptime(other, r)

\* C18: whenever enhanced_processor_final_fixed or correct_fixed_processor
\* turns a text a/b/yy into a date, a transaction date is the month-first
\* reading and a birth date the day-first reading, the other order being
\* returned only when the preferred order is no date; 2/8/16 as a
\* transaction date is 2016-02-08 and 26/11/96 as a birth date is 1996-11-26.
C18_RoleFixesReading ==
    [][(RowStep /\ prog \in {"EPFF", "CFP"}) =>
          /\ (row'.tdate.k = "s2" /\ TxnDateOf(prog, row') # NoDate)
                => TxnDateOf(prog, row') = RoleReading("TransactionDate", row'.tdate)
          /\ (row'.dob.k = "s2" /\ DobOf(prog, row') # NoDate)
                => DobOf(prog, row') = RoleReading("CustomerDOB", row'.dob)
          /\ row'.tdate = RawDate("s2", 2, 8, 16)
                => TxnDateOf(prog, row') = Date(2016, 2, 8)
          /\ row'.dob = RawDate("s2", 26, 11, 96)
                => DobOf(prog, row') = Date(1996, 11, 26)]_vars

\* the year window of a role in smart_date_conversion
InWindow(field_name, d) ==
    IF field_name = "TransactionDate" THEN TxnYearLo <= d.y /\ d.y <= TxnYearHi
    ELSE DobYearLo <= d.y /\ d.y <= DobYearHi

\* C19: every date that smart_date_conversion returns for a row of
\* enhanced_processor_final_fixed has its year inside the window of its role
\* (2000-2020 for TransactionDate, 1930-2010 for CustomerDOB); a text that no
\* candidate format puts inside the window gives None.
C19_ReturnedDateInWindow ==
    [][(RowStep /\ prog = "EPFF") =>
          /\ TxnDateOf(prog, row') # NoDate
                => InWindow("TransactionDate", TxnDateOf(prog, row'))
          /\ DobOf(prog, row') # NoDate
                => InWindow("CustomerDOB", DobOf(prog, row'))]_vars

\* a pass of the row loop body of robust_date_processor / fix_year_processor
YearRowStep == pc = "year_rows" /\ idx' = idx + 1

\* the years a two-digit token may stand for
Interpretations(yy) == {1900 + yy, 2000 + yy}

\* the year of d is the interpretation of yy that lies in lo..hi
PicksInside(d, yy, lo, hi) ==
    d # NoDate /\ d.y \in Interpretations(yy) /\ lo <= d.y /\ d.y <= hi

\* C20: in robust_date_processor and fix_year_processor, for every year
\* token yy of a text a/b/yy that is a date in the order its role prefers
\* (month first for the transaction date, day first for the birth date), when 19yy or
\* 20yy lies inside the role's window (2000-2020 for the transaction date,
\* 1800-2010 for the birth date) the parser returns a date with that year.
C20_CenturyInsideWindow ==
    [][YearRowStep =>
          LET t == row'.tdate
              b == row'.dob
          IN /\ ( /\ t.k = "s2" /\ Strptime("%m/%d/%y", t) # NoDate
                  /\ \E y \in Interpretations(t.y) : TxnYearLo <= y /\ y <= TxnYearHi )
                   => PicksInside(TxnDateOf(prog, row'), t.y, TxnYearLo, TxnYearHi)
             /\ ( /\ b.k = "s2" /\ Strptime("%d/%m/%y", b) # NoDate
                  /\ \E y \in Interpretations(b.y) : RdpDobYearLo <= y /\ y <= DobYearHi )
                   => PicksInside(DobOf(prog, row'), b.y, RdpDobYearLo, DobYearHi)]_vars

\* C20, transaction dates only
C20_TxnCenturyInsideWindow ==
    [][YearRowStep =>
          LET t == row'.tdate
          IN ( /\ t.k = "s2" /\ Strptime("%m/%d/%y", t) # NoDate
               /\ \E y \in Interpretations(t.y) : TxnYearLo <= y /\ y <= TxnYearHi )
                => PicksInside(TxnDateOf(prog, row'), t.y, TxnYearLo, TxnYearHi)]_vars

\* ----------------------------------------------------- error handler claims
\* C21: retry_operation calls the operation at most max_retries (3) times,
\* sleeps 2^k seconds before its attempt k = 0, 1, 2 (1, 2, 4 seconds), makes
\* no attempt after the first success, and returns None after the last
\* attempt has failed.
C21_BoundedBackoff ==
    prog = "EH" =>
        /\ op_calls <= MaxRetries
        /\ Len(wait_times) = op_calls
        /\ \A k \in 1..Len(wait_times) : wait_times[k] = 2 ^ (k - 1)
        /\ op_result # "none" => (pc = "handler" /\ handled = op_result)
        /\ (op_calls = MaxRetries /\ op_result = "none")
              => (pc = "handler" /\ handled = "None")
        /\ pc = "retry" => (op_calls < MaxRetries /\ op_result = "none")

\* C21 witness: three attempts failed, after sleeps of 1, 2 and 4 seconds
C21_Witness ==
    /\ prog = "EH" /\ wait_times = <<1, 2, 4>> /\ op_result = "none"
    /\ handled = "None" /\ pc = "handler"

\* the failed retries the last call of handle_error added for its error type
RetriesAdded == Get(retry_attempts, error_type) - Get(retryAtCall, error_type)

\* C22: when handle_error, called with a transient error type and an
\* operation, has returned after the operation succeeded on its attempt j+1
\* (j < 3 attempts raised before), it returned the operation's own value, the
\* operation was called exactly j+1 times, and retry_attempts[error_type] has
\* grown by j, the counts of the other types being as they were.
C22_RetryReturnsResult ==
    (prog = "EH" /\ pc = "handler" /\ op_result # "none") =>
        /\ error_type \in TransientErrors
        /\ handled = op_result
        /\ RetriesAdded < MaxRetries
        /\ op_calls = RetriesAdded + 1
        /\ \A et \in ErrorTypes \ {error_type} :
              Get(retry_attempts, et) = Get(retryAtCall, et)

\* C22 witness: the operation of test_error_handler, which fails twice and
\* then succeeds
C22_Witness ==
    /\ prog = "EH" /\ pc = "handler" /\ error_type = "network_error"
    /\ op_calls = 3 /\ handled = "v1" /\ RetriesAdded = 2

\* C23: a call of handle_error adds exactly one to error_count and to
\* error_types[error_type]; with 'file_not_found' or 'configuration_error' it
\* raises RuntimeError, with 'data_validation_error' or
\* 'business_rule_violation' it returns None, and in both cases an operation
\* that was supplied is never called.
C23_CriticalAndDataErrors ==
    [][error_count' # error_count =>
          /\ error_count' = error_count + 1
          /\ \A et \in ErrorTypes :
                Get(error_types', et) = Get(error_types, et) + (IF et = error_type' THEN 1 ELSE 0)
          /\ error_type' \in CriticalErrors
                => (handled' = "RuntimeError" /\ op_calls' = 0 /\ pc' = "handler")
          /\ error_type' \in DataErrors
                => (handled' = "None" /\ op_calls' = 0 /\ pc' = "handler")]_vars

\* C23 witness: a critical error was raised for a call that was given an
\* operation, after a data error
C23_Witness ==
    /\ prog = "EH" /\ error_type = "file_not_found" /\ operation
    /\ handled = "RuntimeError" /\ op_calls = 0
    /\ Get(error_types, "data_validation_error") = 1 /\ error_count = 2

\* ---------------------------------------------------------- validator claims
\* the transactions of q that fail validate_transaction
RECURSIVE Failing(_)
Failing(q) ==
    IF q = <<>> THEN 0
    ELSE (IF validate_transaction(Head(q)) THEN 0 ELSE 1) + Failing(Tail(q))

\* C24: for every non-empty input list run_validated_pipeline returns, with
\* valid_count + rejected_count = original_count, rejected_count the number of
\* transactions failing validate_transaction, processed_count <= valid_count
\* and success true exactly when some transaction is valid; no invalid
\* transaction is handed to the processing step.
C24_ValidatedPipelineCounts ==
    (prog = "VPF" /\ pc # "pipeline" /\ transactions # <<>>) =>
        /\ pc = "returned"
        /\ pipeline_result.original_count = Len(transactions)
        /\ pipeline_result.valid_count + pipeline_result.rejected_count = pipeline_result.original_count
        /\ pipeline_result.rejected_count = Failing(transactions)
        /\ pipeline_result.processed_count <= pipeline_result.valid_count
        /\ pipeline_result.success <=> (Failing(transactions) < Len(transactions))
        /\ \A n \in 1..Len(handed) : \A m \in 1..Len(handed[n]) :
              validate_transaction(handed[n][m])

\* C24 for the calls that return
C24_CountsWhenReturned ==
    (prog = "VPF" /\ pc = "returned" /\ transactions # <<>>) =>
        /\ pipeline_result.original_count = Len(transactions)
        /\ pipeline_result.valid_count + pipeline_result.rejected_count = pipeline_result.original_count
        /\ pipeline_result.rejected_count = Failing(transactions)
        /\ pipeline_result.processed_count <= pipeline_result.valid_count
        /\ pipeline_result.success <=> (Failing(transactions) < Len(transactions))
        /\ \A n \in 1..Len(handed) : \A m \in 1..Len(handed[n]) :
              validate_transaction(handed[n][m])

\* the fraction r equals a / b
RateIs(r, a, b) == r.num * b = a * r.den

\* C25: after validate_batch over N transactions on a fresh DataValidator,
\* valid_count + invalid_count = total_processed = N and validation_errors
\* holds one entry per invalid transaction; get_validation_report then gives
\* total_checked = N, errors_count = invalid_count, error_rate =
\* invalid_count / N and success_rate = valid_count / N.
C25_ValidationReport ==
    LET N == Len(transactions) IN
    /\ (prog = "DV" /\ pc \in {"validated", "reported"}) =>
          /\ batch_result.valid_count + batch_result.invalid_count = N
          /\ batch_result.total_processed = N
          /\ Len(validation_errors) = batch_result.invalid_count
    /\ (prog = "DV" /\ pc = "reported" /\ N > 0) =>
          /\ report.total_checked = N
          /\ report.errors_count = batch_result.invalid_count
          /\ RateIs(report.error_rate, batch_result.invalid_count, N)
          /\ RateIs(report.success_rate, batch_result.valid_count, N)

\* C25, the part about validate_batch and errors_count
C25_BatchCounts ==
    LET N == Len(transactions) IN
    /\ (prog = "DV" /\ pc \in {"validated", "reported"}) =>
          /\ batch_result.valid_count + batch_result.invalid_count = N
          /\ batch_result.total_processed = N
          /\ Len(validation_errors) = batch_result.invalid_count
    /\ (prog = "DV" /\ pc = "reported") =>
          report.errors_count = batch_result.invalid_count

\* ------------------------------------------------------------ sink claims
\* C26: DatabaseClient._connect_with_retry ends after at most max_retries
\* attempts: every pass of its loop is one more attempt; a successful
\* attempt returns at once with the connection set and without a sleep; a
\* failed attempt that is not the last is followed by one sleep and the next
\* attempt; the last failed attempt raises without a sleep.
C26_ConnectTerminates ==
    [][(prog \in FwpProgs /\ pc = "start") =>
          /\ connect_attempt < ConnectMaxRetries
          /\ connect_sleeps = connect_attempt
          /\ \/ /\ pc' = "loop" /\ conn' = "ready"
                /\ connect_attempt' = 0 /\ connect_sleeps' = 0
             \/ /\ pc' = "start" /\ conn' = conn
                /\ connect_attempt' = connect_attempt + 1
                /\ connect_attempt' < ConnectMaxRetries
                /\ connect_sleeps' = connect_sleeps + 1
             \/ /\ pc' = "aborted" /\ conn' = "closed"
                /\ connect_attempt' = connect_attempt + 1
                /\ connect_sleeps' = connect_sleeps]_vars

\* C26 witness: the last attempt failed too and the error was raised, after
\* one sleep fewer than attempts
C26_Witness ==
    /\ prog \in FwpProgs /\ pc = "aborted"
    /\ connect_attempt = ConnectMaxRetries
    /\ connect_sleeps = ConnectMaxRetries - 1

\* a call of insert_transaction_batch by the batch loop of
\* final_working_processor or final_working_processor_backup
InsertBatchStep == prog \in {"FWP", "FWPB"} /\ pc = "batches" /\ idx < chunkLen

\* the length of the batch the call is given
BatchLen == Min(BatchSize, chunkLen - idx)

\* C27: every call of insert_transaction_batch returns, either
\* len(transactions) with all rows of the batch committed, or 0 with the
\* table as it was.
C27_BatchAllOrNothing ==
    [][InsertBatchStep =>
          /\ pc' # "crashed"
          /\ success_count' \in {0, BatchLen}
          /\ success_count' = BatchLen
                => (Len(sink') = Len(sink) + BatchLen /\ issued' \subseteq Range(sink'))
          /\ success_count' = 0 => sink' = sink]_vars

\* C27 for the calls that return
C27_ReturnedAllOrNothing ==
    [][(InsertBatchStep /\ pc' # "crashed") =>
          /\ success_count' \in {0, BatchLen}
          /\ success_count' = BatchLen
                => (Len(sink') = Len(sink) + BatchLen /\ issued' \subseteq Range(sink'))
          /\ success_count' = 0 => sink' = sink]_vars



\* the storing function returns to the chunk loop from a transaction in
\* which an INSERT has failed
ReturnsFromFailedTransaction ==
    /\ prog \in {"EPFF", "CFP"}
    /\ pc = "rows" /\ idx = chunkLen /\ conn = "inerror"
    /\ pc' = "loop"

\* C28: when an INSERT of the chunk has failed inside the chunk's
\* transaction, the count that store_processed_data_postgres or process_chunk
\* returns for the chunk is the number of rows the commit added to the table.
C28_CountIsDurableAfterFailure ==
    [][ReturnsFromFailedTransaction
          => success_count' = Len(sink') - Len(sink)]_vars

\* C28, the part that holds: such a chunk leaves nothing in the table
C28_FailedTransactionStoresNothing ==
    [][ReturnsFromFailedTransaction => sink' = sink]_vars


\* the transactions that were passed to a write method of the database object
RECURSIVE RowsWritten(_)
RowsWritten(w) == IF w = <<>> THEN 0 ELSE Len(Head(w)) + RowsWritten(Tail(w))

\* C29: with a DatabaseClient as the database object, the processed_count
\* that run_production_pipeline reports from save_to_database is at most the
\* number of transactions that were passed to a write method of the client.
C29_CountedWereWritten ==
    (prog = "VPD" /\ pc = "produced" /\ db = "DatabaseClient")
        => pipeline_result.processed_count <= RowsWritten(written)

\* C29, what the code does: with a DatabaseClient every valid transaction is
\* counted and none is passed to the client
C29_CountedNoneWritten ==
    (prog = "VPD" /\ pc = "produced" /\ db = "DatabaseClient")
        => /\ pipeline_result.processed_count = pipeline_result.valid_count
           /\ written = <<>>


\* how often id occurs in the sequence q
RECURSIVE Occurrences(_, _)
Occurrences(id, q) ==
    IF q = <<>> THEN 0
    ELSE (IF Head(q) = id THEN 1 ELSE 0) + Occurrences(id, Tail(q))

\* process_large_dataset of final_working_processor_fixed has returned
MonitoredRunDone == prog = "FWPF" /\ pc = "done"

\* C30: when process_large_dataset with monitoring has returned, the batch
\* 'full_pipeline_execution' that it opened first has been closed by the
\* end_batch of its last lines: it is in metrics_history exactly once and no
\* batch is left open.
C30_RunBatchClosedOnce ==
    MonitoredRunDone =>
        /\ Occurrences(FullPipelineExecution, history_ids) = 1
        /\ ~current_batch.active

\* C30, what the code does: the first chunk's start_batch replaces the run's
\* batch, which no end_batch finds again; it never reaches metrics_history
C30_RunBatchNeverClosed ==
    (prog = "FWPF" /\ chunk_number > 0 /\ pc # "interrupted")
        => /\ batch_id # FullPipelineExecution
           /\ Occurrences(FullPipelineExecution, history_ids) = 0

\* C30, the per-chunk batches: each is in metrics_history at most once, and
\* the one being processed is the current batch
C30_ChunkBatchesClosedOnce ==
    prog = "FWPF" =>
        /\ \A n \in 1..chunk_number :
              Occurrences(BatchId("chunk", n), history_ids) <= 1
        /\ pc = "batches" => batch_id = BatchId("chunk", chunk_number)


\* the percentage r (num / den, den > 0) lies between lo and hi
PercentWithin(r, lo, hi) == lo * r.den <= r.num /\ r.num <= hi * r.den

\* C31: while a batch is active its data_quality_score is between 0 and 100
\* and its error_rate is at most 100, for the calls of process_large_dataset
\* as for a client that passes no error counts.
C31_QualityScoreInRange ==
    current_batch.active =>
        /\ PercentWithin(current_batch.data_quality_score, 0, 100)
        /\ PercentWithin(error_rate(current_batch), 0, 100)

\* C31 for a client that leaves validation_errors and database_errors at 0
C31_ClientScoreInRange ==
    (prog = "MON" /\ current_batch.active) =>
        /\ PercentWithin(current_batch.data_quality_score, 0, 100)
        /\ PercentWithin(error_rate(current_batch), 0, 100)

\* C31, what process_large_dataset records: every record that was not stored
\* is in records_failed and in database_errors
C31_FailedCountedTwice ==
    (prog = "FWPF" /\ current_batch.active) =>
        /\ current_batch.database_errors = current_batch.records_failed
        /\ current_batch.records_failed
              = current_batch.records_processed - current_batch.records_successful


\* the chunks process_large_dataset generated and gave to the store, each of
\* chunk_size records
ChunksSubmitted == rowsPulled \div ChunkSize

\* C32: when process_large_dataset of final_working_processor_fixed has
\* returned, the chunk_num of its 'Chunks processed' line is the number of
\* chunks that were generated and given to the store.
C32_ChunksProcessedFigure ==
    (prog = "FWPF" /\ pc = "done") => chunk_number = ChunksSubmitted

\* C32, what the code does: the figure is one more than the chunks submitted
\* when the demo limit ended the loop, and right when the range was exhausted
C32_FigureCountsLimitPass ==
    (prog = "FWPF" /\ pc = "done") =>
        chunk_number = ChunksSubmitted + (IF rowsPulled < fileCap THEN 1 ELSE 0)


JobStep == prog = "SCH" /\ pc = "scheduler" /\ scheduler_stats' # scheduler_stats

\* C34: from zeroed scheduler_stats, jobs_executed = jobs_succeeded +
\* jobs_failed after every call of run_batch_job, and a call adds exactly one
\* to jobs_executed and to exactly one of jobs_succeeded and jobs_failed.
C34_JobCountedOnce ==
    /\ [][prog = "SCH" =>
            scheduler_stats'.jobs_executed
              = scheduler_stats'.jobs_succeeded + scheduler_stats'.jobs_failed]_vars
    /\ [][JobStep =>
            /\ scheduler_stats'.jobs_executed = scheduler_stats.jobs_executed + 1
            /\ \/ /\ scheduler_stats'.jobs_succeeded = scheduler_stats.jobs_succeeded + 1
                  /\ scheduler_stats'.jobs_failed = scheduler_stats.jobs_failed
               \/ /\ scheduler_stats'.jobs_succeeded = scheduler_stats.jobs_succeeded
                  /\ scheduler_stats'.jobs_failed = scheduler_stats.jobs_failed + 1]_vars

\* C34 witness: four jobs have run, one for each way the subprocess ends
C34_Witness ==
    /\ prog = "SCH"
    /\ scheduler_stats = [jobs_executed |-> 4, jobs_succeeded |-> 1, jobs_failed |-> 3]
    /\ {job_history[i].status : i \in 1..Len(job_history)} = {"timeout", "error"}

\* the statuses a finished job's record has
FinalStatuses == {"success", "failed", "timeout", "error"}

\* C35: after every call of run_batch_job, job_history has at most the cap's
\* number of records, they are the jobs run last in the order they ran, and
\* each has a final status.
C35_HistoryIsLastJobs ==
    prog = "SCH" =>
        /\ Len(job_history) = Min(HistoryCap, scheduler_stats.jobs_executed)
        /\ \A i \in 1..Len(job_history) :
              /\ job_history[i].seq
                    = scheduler_stats.jobs_executed - Len(job_history) + i
              /\ job_history[i].status \in FinalStatuses

\* C35 witness: more jobs have run than the history keeps; the oldest kept
\* one timed out
C35_Witness ==
    /\ prog = "SCH"
    /\ scheduler_stats.jobs_executed = HistoryCap + 2
    /\ Len(job_history) = HistoryCap
    /\ job_history[1].status = "timeout"

\* ------------------------------------------------------------------ C36
\* the scheduler processes that are alive
AliveSchedulers == {p \in Pids : procs[p] = "scheduler"}

\* C36: across any interleaving of the start, stop and restart commands of
\* the controllers, at most one scheduler process launched by a controller
\* is alive at any time.
C36_AtMostOneScheduler ==
    prog = "CTL" => Cardinality(AliveSchedulers) <= 1

\* What the code does keep: start_scheduler goes on to spawn only from a
\* check that found no process under the PID of the file, and a scheduler
\* is spawned by a start_scheduler that passed this check only.
C36_StartRefusesWhenFound ==
    [][/\ \A c \in Controllers :
            (ctl[c].pc # "start_checked" /\ ctl'[c].pc = "start_checked")
            => ~is_scheduler_running_simple(pid_file, procs)
       /\ AliveSchedulers' \subseteq AliveSchedulers
          \/ \E c \in Controllers : ctl[c].pc = "start_checked" /\ ctl'[c].pc = "spawned"]_vars

\* ------------------------------------------------------------------ C37
\* stop_scheduler of the controller c runs `kill` on the PID of the file
Signals(c) == ctl[c].pc = "stop_checked" /\ ctl'[c].pc = "killed"

\* C37: stop_scheduler only ever signals a process that start_scheduler
\* launched and that is still the scheduler; a PID file left behind by a
\* scheduler that exited on its own gets no other process killed.
C37_StopSignalsSchedulerOnly ==
    [][\A c \in Controllers :
         (Signals(c) /\ procs[pid_file] # "free") => procs[pid_file] = "scheduler"]_vars

\* The same claim for the status: RUNNING is reported (the check of
\* show_scheduler_status is is_scheduler_running_simple) only while the
\* process under the PID of the file is a scheduler.  The code does not
\* keep this either, for the same reason.
C37_RunningMeansScheduler ==
    (prog = "CTL" /\ is_scheduler_running_simple(pid_file, procs))
    => procs[pid_file] = "scheduler"

\* What the code does keep: a stop_scheduler that returns True leaves no
\* PID file behind.
C37_SuccessfulStopRemovesPidFile ==
    [][\A c \in Controllers :
         (/\ ctl[c].pc \in {"removing", "stop_checked"}
          /\ ctl'[c].pc \in {"idle", "start_pending"})
         => pid_file' = NoPid]_vars

\* ------------------------------------------------------------------ C38
\* the last operation given to retry_operation failed on all its attempts
FailedAllAttempts ==
    /\ prog = "EH" /\ pc = "handler"
    /\ operation /\ Strategy(error_type) = "retry"
    /\ op_calls = MaxRetries /\ handled = "None"

\* C38: the success_rate of get_error_report is below 1.0 whenever an
\* operation given to retry_operation failed on all of its attempts.
C38_RateBelowOneAfterFailure ==
    FailedAllAttempts =>
        get_error_report.success_rate.num < get_error_report.success_rate.den

\* What the code computes: every count in retry_attempts is positive, so
\* the rate is 1.0 whatever the retries did.
C38_RateIsAlwaysOne ==
    prog = "EH" =>
        get_error_report.success_rate.num = get_error_report.success_rate.den

====
